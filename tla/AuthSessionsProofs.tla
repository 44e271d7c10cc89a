-------------------------- MODULE AuthSessionsProofs --------------------------
(***************************************************************************)
(* What AuthSessions keeps, for any number of emails and requests.  The    *)
(* inductive invariant SessionInv says why the rows can be trusted by a    *)
(* handler that read them long ago:                                        *)
(*   - the token a request is going to give out is new until its COMMIT;   *)
(*   - the email a registration has inserted is free until its COMMIT, and *)
(*     no other registration has inserted it;                              *)
(*   - the session of a token is never absent again.                       *)
(* HolderInv and UnansweredInv, on top of it, say who is about to answer   *)
(* with the token of a session, and why a logout that clears its own token *)
(* leaves the session unusable.                                            *)
(***************************************************************************)
EXTENDS AuthSessions, TLAPS

CreatorStages == {"post", "insertUser", "touchUser", "insertSession", "commit",
                  "committed"} \cup Ended
RefreshStages == {"post", "sent", "rotate", "committed"} \cup Ended
LogoutStages  == {"post", "sent", "revoke", "clear"} \cup Ended

\* Before its COMMIT a request has given no token to any session or browser.
Fresh(r) ==
  stage[r] \notin {"committed", "done", "lost"} =>
    /\ \A s \in Creators : sessions[s].jti # r
    /\ \A t \in retired : t.jti # r
    /\ \A b \in Browsers : jar[b].jti # r
    /\ \A q \in Refreshes \cup Logouts : token[q].jti # r

\* A registration or a login.
CreatorInv ==
  \A r \in Creators :
    /\ stage[r] \in CreatorStages
    /\ Fresh(r)
    /\ stage[r] \in {"insertUser", "touchUser", "insertSession", "commit"} => email[r] \in Emails
    /\ stage[r] \notin {"committed", "done", "lost"} => sessions[r] = NoSession
    /\ stage[r] = "committed" => sessions[r] # NoSession

\* Where a registration has inserted its email and not committed it.
Inserted == {"insertSession", "commit"}

\* A registration that has inserted its email has it alone.
EmailInv ==
  \A r \in Registers :
    stage[r] \in Inserted =>
      /\ users[email[r]] = Nobody
      /\ \A q \in Registers \ {r} : stage[q] \in Inserted => email[q] # email[r]

\* A refresh or a logout has a token of a session there is, and so has a browser.
TokenInv ==
  /\ \A r \in Refreshes : stage[r] \in RefreshStages /\ Fresh(r)
  /\ \A r \in Logouts : stage[r] \in LogoutStages
  /\ \A r \in Refreshes \cup Logouts :
       stage[r] \in {"sent", "rotate", "revoke", "committed"} => token[r] \in Tokens
  /\ \A r \in Refreshes \cup Logouts :
       token[r] \in Tokens => sessions[token[r].sid] # NoSession
  /\ \A b \in Browsers : jar[b] \in Tokens => sessions[jar[b].sid] # NoSession

SessionInv == TypeOK /\ CreatorInv /\ EmailInv /\ TokenInv

-----------------------------------------------------------------------------

LEMMA InitSessionInv == Init => SessionInv
<1> SUFFICES ASSUME Init PROVE SessionInv
  OBVIOUS
<1>1. TypeOK
  BY DEF Init, TypeOK, Stages, Ended, SessionRows, Creators
<1>2. CreatorInv
  <2>1. ASSUME NEW r \in Creators
        PROVE  stage[r] = "post" /\ sessions[r] = NoSession
    BY <2>1 DEF Init, Reqs
  <2>2. ASSUME NEW r \in Creators PROVE Fresh(r)
    BY <2>2, RequestsAreDistinct DEF Init, Fresh, NoSession, NoToken, Creators
  <2> QED BY <2>1, <2>2 DEF CreatorInv, CreatorStages
<1>3. EmailInv
  BY DEF Init, EmailInv, Inserted, Reqs, Creators
<1>4. TokenInv
  BY RequestsAreDistinct
  DEF Init, TokenInv, RefreshStages, LogoutStages, Fresh, Reqs, Creators, Tokens, NoToken, NoSession
<1> QED BY <1>1, <1>2, <1>3, <1>4 DEF SessionInv

\* A token of no request is no token.
LEMMA NoTokenIsNone == NoToken \notin Tokens
BY RequestsAreDistinct DEF NoToken, Tokens, Creators

\* A session that is there has a token, and its fields have their types.
LEMMA RowsHaveTokens ==
  ASSUME SessionInv, NEW s \in Creators, sessions[s] # NoSession
  PROVE  /\ sessions[s] \in [state : {"active", "revoked"}, jti : Creators \cup Refreshes,
                             expired : BOOLEAN]
         /\ sessions[s].jti # Nobody
         /\ CurrentToken(s) \in Tokens
BY RequestsAreDistinct DEF SessionInv, TypeOK, SessionRows, CurrentToken, Tokens, Creators

-----------------------------------------------------------------------------
(* A handler that only goes on, or ends, leaves the rows alone. *)

\* A step that leaves each session its token.
SameTokens ==
  /\ sessions' \in [Creators -> SessionRows]
  /\ \A s \in Creators :
       /\ sessions'[s].jti = sessions[s].jti
       /\ sessions'[s] = NoSession <=> sessions[s] = NoSession

\* As a step does that leaves the sessions alone.
LEMMA UnchangedSameTokens == SessionInv /\ sessions' = sessions => SameTokens
BY DEF SameTokens, SessionInv, TypeOK

\* A request that ends keeps SessionInv, if what it leaves a browser is nothing or
\* a token of its own.
LEMMA EndKeeps ==
  ASSUME SessionInv, NEW r \in Reqs, NEW s \in Ended, End(r, s),
         SameTokens, UNCHANGED <<users, retired>>,
         jar' \in [Browsers -> Tokens \cup {NoToken}],
         \A b \in Browsers : jar'[b] \in {jar[b], NoToken} \/ jar'[b].jti = r,
         \A b \in Browsers : jar'[b] \in Tokens => sessions[jar'[b].sid] # NoSession
  PROVE  SessionInv'
<1> USE DEF SessionInv, End, Goto, SameTokens
<1>1. TypeOK'
  BY DEF TypeOK, Stages, Reqs
<1>0. ASSUME NEW q \in Creators \cup Refreshes, Fresh(q) PROVE Fresh(q)'
  <2> SUFFICES ASSUME stage'[q] \notin {"committed", "done", "lost"} PROVE Fresh(q)'
    BY DEF Fresh
  <2>1. q # r /\ stage'[q] = stage[q] /\ NoToken.jti # q
    BY RequestsAreDistinct DEF TypeOK, Reqs, Ended, NoToken, Creators
  <2>2. \A b \in Browsers : jar'[b].jti # q
    BY <1>0, <2>1 DEF Fresh
  <2>3. \A p \in Refreshes \cup Logouts : token'[p].jti # q
    BY <1>0, <2>1 DEF Fresh
  <2> QED BY <1>0, <2>1, <2>2, <2>3 DEF Fresh
<1>2. CreatorInv'
  <2>1. ASSUME NEW q \in Creators PROVE Fresh(q)'
    BY <2>1, <1>0 DEF CreatorInv
  <2>2. ASSUME NEW q \in Creators
        PROVE  /\ stage'[q] \in CreatorStages
               /\ stage'[q] \in {"insertUser", "touchUser", "insertSession", "commit"} => email'[q] \in Emails
               /\ stage'[q] \notin {"committed", "done", "lost"} => sessions'[q] = NoSession
               /\ stage'[q] = "committed" => sessions'[q] # NoSession
    BY <2>2, RequestsAreDistinct DEF CreatorInv, CreatorStages, Ended, TypeOK, Reqs, Creators
  <2> QED BY <2>1, <2>2 DEF CreatorInv
<1>3. EmailInv'
  BY DEF EmailInv, Inserted, TypeOK, Creators, Reqs, Ended
<1>4. TokenInv'
  <2>1. ASSUME NEW q \in Refreshes PROVE stage'[q] \in RefreshStages /\ Fresh(q)'
    BY <1>0, <2>1 DEF TokenInv, RefreshStages, Ended, TypeOK, Reqs
  <2>2. ASSUME NEW q \in Logouts PROVE stage'[q] \in LogoutStages
    BY <2>2 DEF TokenInv, LogoutStages, Ended, TypeOK, Reqs
  <2>3. ASSUME NEW q \in Refreshes \cup Logouts
        PROVE  /\ stage'[q] \in {"sent", "rotate", "revoke", "committed"} => token'[q] \in Tokens
               /\ token'[q] \in Tokens => sessions'[token'[q].sid] # NoSession
    BY <2>3, NoTokenIsNone DEF TokenInv, Ended, TypeOK, Reqs, Tokens
  <2>4. \A b \in Browsers : jar'[b] \in Tokens => sessions'[jar'[b].sid] # NoSession
    BY DEF Tokens
  <2> QED BY <2>1, <2>2, <2>3, <2>4 DEF TokenInv
<1> QED BY <1>1, <1>2, <1>3, <1>4

\* A request that goes on before its COMMIT keeps SessionInv, if it has what its
\* next stage wants.
LEMMA GoOnKeeps ==
  ASSUME SessionInv, NEW r \in Reqs, NEW s \in Stages, Goto(r, s),
         SameTokens, UNCHANGED <<users, jar, retired>>,
         stage[r] \notin {"committed"} \cup Ended,
         email' \in [Creators -> Emails \cup {Nobody}],
         \A q \in Creators \ {r} : email'[q] = email[q],
         token' \in [Refreshes \cup Logouts -> Tokens \cup {NoToken}],
         \A q \in (Refreshes \cup Logouts) \ {r} : token'[q] = token[q],
         r \in Creators =>
           s \in {"insertUser", "touchUser", "insertSession", "commit"} /\ email'[r] \in Emails,
         r \in Registers /\ s \in Inserted =>
           /\ users[email'[r]] = Nobody
           /\ \A q \in Registers \ {r} : stage[q] \in Inserted => email[q] # email'[r],
         r \in Refreshes => s \in {"sent", "rotate"},
         r \in Logouts => s \in {"sent", "revoke", "clear"},
         r \in Refreshes \cup Logouts =>
           /\ token'[r] = token[r] \/ \E b \in Browsers : token'[r] = jar[b]
           /\ s # "clear" => token'[r] \in Tokens
  PROVE  SessionInv'
<1> USE DEF SessionInv, Goto, SameTokens
<1>1. TypeOK'
  BY DEF TypeOK, Reqs
<1>0. ASSUME NEW q \in Creators \cup Refreshes, Fresh(q) PROVE Fresh(q)'
  <2> SUFFICES ASSUME stage'[q] \notin {"committed", "done", "lost"} PROVE Fresh(q)'
    BY DEF Fresh
  <2>1. stage[q] \notin {"committed", "done", "lost"}
    BY DEF TypeOK, Reqs, Ended
  <2>2. \A p \in Refreshes \cup Logouts : token'[p].jti # q
    BY <1>0, <2>1 DEF Fresh
  <2> QED BY <1>0, <2>1, <2>2 DEF Fresh
<1>2. CreatorInv'
  <2>1. ASSUME NEW q \in Creators PROVE Fresh(q)'
    BY <1>0, <2>1 DEF CreatorInv
  <2>2. ASSUME NEW q \in Creators
        PROVE  /\ stage'[q] \in CreatorStages
               /\ stage'[q] \in {"insertUser", "touchUser", "insertSession", "commit"} => email'[q] \in Emails
               /\ stage'[q] \notin {"committed", "done", "lost"} => sessions'[q] = NoSession
               /\ stage'[q] = "committed" => sessions'[q] # NoSession
    BY <2>2, RequestsAreDistinct DEF CreatorInv, CreatorStages, Ended, TypeOK, Reqs
  <2> QED BY <2>1, <2>2 DEF CreatorInv
<1>3. EmailInv'
  <2> SUFFICES ASSUME NEW q \in Registers, stage'[q] \in Inserted
               PROVE  /\ users[email'[q]] = Nobody
                      /\ \A p \in Registers \ {q} : stage'[p] \in Inserted => email'[p] # email'[q]
    BY DEF EmailInv
  <2>1. \A p \in Registers \ {r} : stage'[p] = stage[p] /\ email'[p] = email[p]
    BY DEF TypeOK, Reqs, Creators
  <2>2. CASE q = r
    BY <2>1, <2>2 DEF TypeOK, Reqs, Creators
  <2>3. CASE q # r
    BY <2>1, <2>3 DEF EmailInv, TypeOK, Reqs, Creators
  <2> QED BY <2>2, <2>3
<1>4. TokenInv'
  <2>1. ASSUME NEW q \in Refreshes PROVE stage'[q] \in RefreshStages /\ Fresh(q)'
    BY <1>0, <2>1 DEF TokenInv, RefreshStages, Ended, TypeOK, Reqs
  <2>2. ASSUME NEW q \in Logouts PROVE stage'[q] \in LogoutStages
    BY <2>2 DEF TokenInv, LogoutStages, Ended, TypeOK, Reqs
  <2>3. ASSUME NEW q \in Refreshes \cup Logouts
        PROVE  /\ stage'[q] \in {"sent", "rotate", "revoke", "committed"} => token'[q] \in Tokens
               /\ token'[q] \in Tokens => sessions'[token'[q].sid] # NoSession
    BY <2>3, NoTokenIsNone DEF TokenInv, Ended, TypeOK, Reqs, Tokens
  <2>4. \A b \in Browsers : jar'[b] \in Tokens => sessions'[jar'[b].sid] # NoSession
    BY DEF TokenInv, Tokens
  <2> QED BY <2>1, <2>2, <2>3, <2>4 DEF TokenInv
<1> QED BY <1>1, <1>2, <1>3, <1>4

-----------------------------------------------------------------------------
(* The steps of a registration or a login. *)

LEMMA CreatorReads ==
  ASSUME SessionInv, NEW r \in Creators, NEW e \in Emails,
         \/ r \in Registers /\ RegisterReads(r, e)
         \/ r \in Logins /\ LoginReads(r, e)
  PROVE  SessionInv'
<1>1. r \in Reqs /\ stage[r] = "post"
  BY DEF Reqs, RegisterReads, LoginReads
<1>2. CASE End(r, "done")
  BY <1>1, <1>2, EndKeeps, UnchangedSameTokens DEF Ended, RegisterReads, LoginReads, SessionInv, TypeOK, TokenInv
<1>3. CASE ~ End(r, "done")
  <2>1. /\ email' = [email EXCEPT ![r] = e] /\ token' = token
        /\ UNCHANGED <<users, sessions, jar, retired>>
        /\ \/ Goto(r, "insertUser")
           \/ Goto(r, "touchUser")
    BY <1>3 DEF RegisterReads, LoginReads
  <2> QED
    BY <1>1, <2>1, GoOnKeeps, UnchangedSameTokens, RequestsAreDistinct
    DEF SessionInv, TypeOK, Stages, Ended, Inserted, Creators
<1> QED BY <1>2, <1>3

LEMMA CreatorGoesOn ==
  ASSUME SessionInv, NEW r \in Creators,
         \/ r \in Registers /\ InsertUser(r)
         \/ r \in Logins /\ TouchUser(r)
         \/ InsertSession(r)
  PROVE  SessionInv'
<1>1. r \in Reqs /\ email[r] \in Emails
  BY DEF Reqs, InsertUser, TouchUser, InsertSession, SessionInv, CreatorInv
<1> USE RequestsAreDistinct DEF SessionInv, TypeOK, Stages, Ended, Inserted, Creators
<1>2. CASE r \in Registers /\ InsertUser(r) /\ End(r, "done")
  BY <1>1, <1>2, EndKeeps, UnchangedSameTokens DEF InsertUser, TokenInv
<1>3. CASE r \in Registers /\ InsertUser(r) /\ ~ End(r, "done")
  <2>1. \A q \in Registers : stage[q] \in Inserted => email[q] # email[r]
    BY <1>3 DEF InsertUser, Inserting
  <2> QED BY <1>1, <1>3, <2>1, GoOnKeeps, UnchangedSameTokens DEF InsertUser
<1>4. CASE r \in Logins /\ TouchUser(r)
  BY <1>1, <1>4, GoOnKeeps, UnchangedSameTokens DEF TouchUser
<1>5. CASE InsertSession(r)
  BY <1>1, <1>5, GoOnKeeps, UnchangedSameTokens DEF InsertSession, EmailInv
<1> QED BY <1>2, <1>3, <1>4, <1>5

LEMMA CommitCreationKeeps ==
  ASSUME SessionInv, NEW r \in Creators, CommitCreation(r)
  PROVE  SessionInv'
<1> USE DEF SessionInv, CommitCreation, Goto
<1>1. /\ stage[r] = "commit" /\ email[r] \in Emails /\ r \in Reqs
      /\ stage' = [stage EXCEPT ![r] = "committed"]
      /\ sessions' = [sessions EXCEPT ![r] = [state |-> "active", jti |-> r, expired |-> FALSE]]
  BY DEF CreatorInv, Reqs
<1>2. sessions'[r] # NoSession /\ \A s \in Creators \ {r} : sessions'[s] = sessions[s]
  BY <1>1 DEF NoSession, TypeOK
<1>3. TypeOK'
  BY <1>1 DEF TypeOK, Stages, SessionRows, Reqs, Creators
<1>4. \A q \in Creators \cup Refreshes : Fresh(q) => Fresh(q)'
  BY <1>1 DEF Fresh, TypeOK, Reqs
<1>5. CreatorInv'
  BY <1>1, <1>2, <1>4 DEF CreatorInv, CreatorStages, TypeOK, Reqs
<1>6. EmailInv'
  <2> SUFFICES ASSUME NEW q \in Registers, stage'[q] \in Inserted
               PROVE  /\ users'[email[q]] = Nobody
                      /\ \A p \in Registers \ {q} : stage'[p] \in Inserted => email[p] # email[q]
    BY DEF EmailInv
  <2>1. q # r /\ stage[q] \in Inserted
    BY <1>1 DEF Inserted, TypeOK, Reqs, Creators
  <2>2. \A p \in Registers \ {q} : stage'[p] \in Inserted => email[p] # email[q]
    BY <1>1, <2>1 DEF EmailInv, Inserted, TypeOK, Reqs, Creators
  <2>3. r \in Registers => email[r] # email[q]
    BY <1>1, <2>1 DEF EmailInv, Inserted
  <2> QED BY <1>1, <2>1, <2>2, <2>3 DEF EmailInv, TypeOK
<1>7. TokenInv'
  <2>1. \A t \in Tokens : sessions[t.sid] # NoSession => sessions'[t.sid] # NoSession
    BY <1>2 DEF Tokens
  <2>2. \A q \in Refreshes \cup Logouts : stage'[q] = stage[q] /\ token'[q] = token[q]
    BY <1>1, RequestsAreDistinct DEF TypeOK, Reqs, Creators
  <2> QED BY <1>4, <2>1, <2>2 DEF TokenInv, TypeOK
<1> QED BY <1>3, <1>5, <1>6, <1>7

LEMMA AnswerKeeps ==
  ASSUME SessionInv, NEW r \in Creators \cup Refreshes, Answer(r)
  PROVE  SessionInv'
<1>1. r \in Reqs /\ stage[r] = "committed"
  BY DEF Answer, Reqs
<1>2. SessionOf(r) \in Creators /\ sessions[SessionOf(r)] # NoSession
  BY <1>1, RequestsAreDistinct DEF SessionOf, SessionInv, CreatorInv, TokenInv, Tokens, Creators
<1>3. [sid |-> SessionOf(r), jti |-> r] \in Tokens
  BY <1>2 DEF Tokens
<1>4. /\ jar' \in [Browsers -> Tokens \cup {NoToken}]
      /\ \A b \in Browsers : jar'[b] = jar[b] \/ jar'[b].jti = r
      /\ \A b \in Browsers : jar'[b] \in Tokens => sessions[jar'[b].sid] # NoSession
  BY <1>2, <1>3 DEF Answer, SessionInv, TypeOK, TokenInv
<1> QED BY <1>1, <1>4, EndKeeps, UnchangedSameTokens DEF Answer, Ended

-----------------------------------------------------------------------------
(* The steps of a refresh or a logout. *)

LEMMA SendKeeps ==
  ASSUME SessionInv, NEW r \in Refreshes \cup Logouts, Send(r)
  PROVE  SessionInv'
<1>1. r \in Reqs /\ r \notin Creators /\ stage[r] = "post" /\ BrowserOf[r] \in Browsers
  BY RequestsAreDistinct, BrowsersAssumption DEF Reqs, Creators, Send
<1> USE DEF SessionInv, TypeOK, Stages, Ended, Inserted, Creators
<1>2. CASE jar[BrowserOf[r]] # NoToken
  BY <1>1, <1>2, GoOnKeeps, UnchangedSameTokens, RequestsAreDistinct DEF Send
<1>3. CASE jar[BrowserOf[r]] = NoToken /\ r \in Refreshes
  BY <1>1, <1>3, EndKeeps, UnchangedSameTokens DEF Send, TokenInv
<1>4. CASE jar[BrowserOf[r]] = NoToken /\ r \notin Refreshes
  BY <1>1, <1>4, GoOnKeeps, UnchangedSameTokens, RequestsAreDistinct DEF Send
<1> QED BY <1>2, <1>3, <1>4

LEMMA TokenReads ==
  ASSUME SessionInv, NEW r \in Refreshes \cup Logouts,
         \/ r \in Refreshes /\ RefreshReads(r)
         \/ r \in Logouts /\ LogoutReads(r)
  PROVE  SessionInv'
<1>1. stage[r] = "sent" /\ token[r] \in Tokens /\ r \in Reqs /\ r \notin Creators
  BY RequestsAreDistinct DEF RefreshReads, LogoutReads, SessionInv, TokenInv, Reqs, Creators
<1>2. CASE End(r, "done")
  BY <1>1, <1>2, EndKeeps, UnchangedSameTokens DEF Ended, RefreshReads, LogoutReads, SessionInv, TypeOK, TokenInv
<1>3. CASE ~ End(r, "done")
  <2>1. /\ UNCHANGED <<users, sessions, email, token, jar, retired>>
        /\ \/ r \in Refreshes /\ Goto(r, "rotate")
           \/ r \in Logouts /\ (Goto(r, "revoke") \/ Goto(r, "clear"))
    BY <1>3 DEF RefreshReads, LogoutReads
  <2> QED BY <1>1, <2>1, GoOnKeeps, UnchangedSameTokens, RequestsAreDistinct
          DEF SessionInv, TypeOK, Stages, Ended, Inserted, Creators
<1> QED BY <1>2, <1>3

LEMMA ClearKeeps ==
  ASSUME SessionInv, NEW r \in Logouts, ClearCookies(r)
  PROVE  SessionInv'
<1>1. r \in Reqs
  BY DEF Reqs
<1>2. /\ jar' \in [Browsers -> Tokens \cup {NoToken}]
      /\ \A b \in Browsers : jar'[b] \in {jar[b], NoToken}
      /\ \A b \in Browsers : jar'[b] \in Tokens => sessions[jar'[b].sid] # NoSession
  BY NoTokenIsNone DEF ClearCookies, SessionInv, TypeOK, TokenInv
<1> QED BY <1>1, <1>2, EndKeeps, UnchangedSameTokens DEF ClearCookies, Ended

LEMMA RotateKeeps ==
  ASSUME SessionInv, NEW r \in Refreshes, Rotate(r)
  PROVE  SessionInv'
<1> DEFINE s == token[r].sid
<1> USE DEF SessionInv, Rotate, Goto
<1>1. /\ stage[r] = "rotate" /\ token[r] \in Tokens /\ sessions[s] # NoSession
      /\ s \in Creators /\ r \in Reqs
  BY DEF TokenInv, Reqs, Tokens
<1>2. /\ sessions[s] \in [state : {"active", "revoked"}, jti : Creators \cup Refreshes,
                          expired : BOOLEAN]
      /\ CurrentToken(s) \in Tokens /\ CurrentToken(s).jti = sessions[s].jti
  BY <1>1, RowsHaveTokens DEF CurrentToken
<1>3. /\ sessions'[s] = [sessions[s] EXCEPT !.jti = r, !.expired = FALSE]
      /\ \A q \in Creators \ {s} : sessions'[q] = sessions[q]
  BY <1>1 DEF TypeOK
<1>4. sessions'[s] # NoSession /\ sessions'[s].jti = r
  <2>1. sessions'[s].jti = r
    <3> DEFINE row == sessions[s]
    <3>1. row \in [state : {"active", "revoked"}, jti : Creators \cup Refreshes, expired : BOOLEAN]
      BY <1>2
    <3>2. [row EXCEPT !.jti = r, !.expired = FALSE].jti = r
      BY <3>1
    <3> QED BY <3>2, <1>3
  <2>2. NoSession.jti = Nobody /\ r # Nobody
    BY RequestsAreDistinct DEF NoSession
  <2> QED BY <2>1, <2>2
<1>5. TypeOK'
  BY <1>1, <1>2 DEF TypeOK, Stages, SessionRows, Reqs
<1>6. \A q \in Creators \cup Refreshes : Fresh(q) => Fresh(q)'
  BY <1>1, <1>2, <1>3, <1>4 DEF Fresh, TypeOK, Reqs
<1>7. stage' = [stage EXCEPT ![r] = "committed"] /\ r \notin Creators
  BY RequestsAreDistinct DEF Creators
<1>8. CreatorInv'
  <2>1. ASSUME NEW q \in Creators
        PROVE  stage'[q] = stage[q] /\ (sessions'[q] = NoSession <=> sessions[q] = NoSession)
    BY <1>1, <1>3, <1>4, <1>7, <2>1 DEF TypeOK, Reqs
  <2> QED BY <1>6, <2>1 DEF CreatorInv
<1>9. EmailInv'
  BY <1>7 DEF EmailInv, TypeOK, Reqs, Creators
<1>10. TokenInv'
  <2>1. \A t \in Tokens : sessions[t.sid] # NoSession => sessions'[t.sid] # NoSession
    BY <1>3, <1>4 DEF Tokens
  <2> QED BY <1>1, <1>6, <1>7, <2>1, RequestsAreDistinct
          DEF TokenInv, TypeOK, RefreshStages, LogoutStages, Ended, Reqs
<1> QED BY <1>5, <1>8, <1>9, <1>10

\* The row of s is marked revoked or expired.
LEMMA MarkingKeepsTokens ==
  ASSUME SessionInv, NEW s \in Creators, sessions[s] # NoSession,
         \/ sessions' = [sessions EXCEPT ![s].state = "revoked"]
         \/ sessions' = [sessions EXCEPT ![s].expired = TRUE]
  PROVE  SameTokens
<1>1. sessions[s] \in [state : {"active", "revoked"}, jti : Creators \cup Refreshes,
                       expired : BOOLEAN]
  BY RowsHaveTokens
<1> DEFINE row == sessions[s]
<1>2. PICK new : /\ \/ new = [row EXCEPT !.state = "revoked"]
                    \/ new = [row EXCEPT !.expired = TRUE]
                 /\ sessions' = [sessions EXCEPT ![s] = new]
  OBVIOUS
<1>3. /\ new \in [state : {"active", "revoked"}, jti : Creators \cup Refreshes,
                  expired : BOOLEAN]
      /\ new.jti = row.jti
  <2> HIDE DEF row
  <2>1. row \in [state : {"active", "revoked"}, jti : Creators \cup Refreshes,
                 expired : BOOLEAN]
    BY <1>1 DEF row
  <2> QED BY <1>2, <2>1
<1>4. new # NoSession /\ new \in SessionRows
  BY <1>3, RequestsAreDistinct DEF NoSession, SessionRows
<1> QED BY <1>2, <1>3, <1>4 DEF SameTokens, SessionInv, TypeOK

LEMMA RevokeKeeps ==
  ASSUME SessionInv, NEW r \in Logouts, Revoke(r)
  PROVE  SessionInv'
<1>1. /\ token[r] \in Tokens /\ token[r].sid \in Creators
      /\ sessions[token[r].sid] # NoSession /\ r \in Reqs
  BY DEF SessionInv, TokenInv, Revoke, Tokens, Reqs
<1>2. SameTokens
  BY <1>1, MarkingKeepsTokens DEF Revoke
<1> QED BY <1>1, <1>2, GoOnKeeps, RequestsAreDistinct
        DEF Revoke, SessionInv, TypeOK, Stages, Ended, Inserted, Creators

-----------------------------------------------------------------------------
(* The other steps. *)

LEMMA ExpireKeeps ==
  ASSUME SessionInv, NEW s \in Creators, Expire(s)
  PROVE  SessionInv'
<1>1. sessions[s] # NoSession
  BY DEF Expire, NoSession
<1>2. SameTokens
  BY <1>1, MarkingKeepsTokens DEF Expire
<1> USE <1>2 DEF SessionInv, Expire, SameTokens
<1>3. TypeOK'
  BY DEF TypeOK
<1>4. \A q \in Creators \cup Refreshes : Fresh(q) => Fresh(q)'
  BY DEF Fresh
<1>5. CreatorInv' /\ EmailInv'
  BY <1>4 DEF CreatorInv, EmailInv
<1>6. TokenInv'
  BY <1>4 DEF TokenInv, TypeOK, Tokens
<1> QED BY <1>3, <1>5, <1>6

LEMMA AbortKeeps ==
  ASSUME SessionInv, NEW r \in Reqs, Abort(r)
  PROVE  SessionInv'
BY EndKeeps, UnchangedSameTokens DEF Abort, Ended, SessionInv, TypeOK, TokenInv

LEMMA StepKeepsSessionInv == SessionInv /\ [Next]_vars => SessionInv'
<1> SUFFICES ASSUME SessionInv, [Next]_vars PROVE SessionInv'
  OBVIOUS
<1>1. ASSUME NEW r \in Registers, RegisterStep(r) \/ \E e \in EmailsOf[r] : RegisterReads(r, e)
      PROVE  SessionInv'
  BY <1>1, EmailsAssumption, CreatorReads, CreatorGoesOn, CommitCreationKeeps, AnswerKeeps DEF RegisterStep, Creators
<1>2. ASSUME NEW l \in Logins, LoginStep(l) \/ \E e \in EmailsOf[l] : LoginReads(l, e)
      PROVE  SessionInv'
  BY <1>2, EmailsAssumption, CreatorReads, CreatorGoesOn, CommitCreationKeeps, AnswerKeeps DEF LoginStep, Creators
<1>3. ASSUME NEW r \in Refreshes, RefreshStep(r) PROVE SessionInv'
  BY <1>3, TokenReads, RotateKeeps, AnswerKeeps DEF RefreshStep
<1>4. ASSUME NEW r \in Logouts, LogoutStep(r) PROVE SessionInv'
  BY <1>4, TokenReads, RevokeKeeps, ClearKeeps DEF LogoutStep
<1>5. ASSUME NEW r \in Refreshes \cup Logouts, Send(r) PROVE SessionInv'
  BY <1>5, SendKeeps
<1>6. ASSUME NEW s \in Creators, Expire(s) PROVE SessionInv'
  BY <1>6, ExpireKeeps
<1>7. ASSUME NEW r \in Reqs, Abort(r) PROVE SessionInv'
  BY <1>7, AbortKeeps
<1>8. CASE UNCHANGED vars
  BY <1>8 DEF vars, SessionInv, TypeOK, CreatorInv, EmailInv, TokenInv, Fresh, SessionRows
<1> QED BY <1>1, <1>2, <1>3, <1>4, <1>5, <1>6, <1>7, <1>8 DEF Next

\* SessionInv holds in every state of every behaviour.
THEOREM SessionsInvariant == Spec => []SessionInv
BY InitSessionInv, StepKeepsSessionInv, PTL DEF Spec

\* The variables keep their types, for any number of emails and requests: no
\* rotation, revocation or expiry meets a row that is not there.
THEOREM TypeCorrect == Spec => []TypeOK
<1>1. SessionInv => TypeOK
  BY DEF SessionInv
<1> QED BY <1>1, SessionsInvariant, PTL

-----------------------------------------------------------------------------
(* The ledger. *)

\* The ledger's view of the rows.
Current == [s \in Creators |-> sessions[s].jti]
Spent == {t.jti : t \in retired}
Revoked == {s \in Creators : sessions[s].state = "revoked"}

LEMMA InitLedger == Init => Ledger!Init
BY DEF Init, Ledger!Init, NoSession

\* A step that changes no row the ledger sees.
LEMMA SameRowsSameLedger ==
  UNCHANGED <<users, sessions, retired>> => UNCHANGED Ledger!vars
BY DEF Ledger!vars

\* A commit opens the session of its request with a token nobody has.
LEMMA CommitOpens ==
  ASSUME SessionInv, NEW r \in Creators, CommitCreation(r)
  PROVE  Ledger!Open(r, r)
<1>1. /\ stage[r] = "commit" /\ sessions[r] = NoSession /\ Fresh(r)
      /\ sessions' = [sessions EXCEPT ![r] = [state |-> "active", jti |-> r, expired |-> FALSE]]
      /\ sessions \in [Creators -> SessionRows]
      /\ retired' = retired
  BY DEF CommitCreation, SessionInv, CreatorInv, TypeOK
<1>2. Current[r] = Nobody /\ Ledger!Unused(r)
  BY <1>1 DEF Current, Fresh, Ledger!Unused, NoSession
<1>3. Current' = [Current EXCEPT ![r] = r] /\ Spent' = Spent
  BY <1>1 DEF Current, Spent
<1>4. Revoked' = Revoked
  BY <1>1 DEF Revoked, NoSession
<1>5. \/ users' = users
      \/ \E e \in Emails, a \in Registers :
           users[e] = Nobody /\ users' = [users EXCEPT ![e] = a]
  <2>1. r \in Registers =>
          email[r] \in Emails /\ users[email[r]] = Nobody /\ users' = [users EXCEPT ![email[r]] = r]
    BY DEF CommitCreation, SessionInv, CreatorInv, EmailInv, Inserted
  <2> QED BY <2>1 DEF CommitCreation
<1> QED BY <1>2, <1>3, <1>4, <1>5 DEF Ledger!Open, Current, Spent, Revoked

\* A rotation replaces the current token, whichever it is by now, with one
\* nobody has.
LEMMA RotateReplaces ==
  ASSUME SessionInv, NEW r \in Refreshes, Rotate(r)
  PROVE  \E s \in Creators : /\ s = token[r].sid /\ Ledger!Replace(s, r)
                            /\ \A q \in Creators \ {s} : sessions'[q] = sessions[q]
<1> DEFINE s == token[r].sid
<1>1. /\ s = token[r].sid /\ stage[r] = "rotate" /\ Fresh(r) /\ s \in Creators /\ sessions[s] # NoSession
      /\ sessions' = [sessions EXCEPT ![s].jti = r, ![s].expired = FALSE]
      /\ sessions \in [Creators -> SessionRows]
      /\ retired' = retired \cup {CurrentToken(s)} /\ users' = users
  BY DEF Rotate, SessionInv, TokenInv, TypeOK, Tokens
<1> HIDE DEF s
<1> DEFINE row == sessions[s]
<1>2. /\ row \in [state : {"active", "revoked"}, jti : Creators \cup Refreshes,
                  expired : BOOLEAN]
      /\ row.jti # Nobody
  BY <1>1, RowsHaveTokens
<1>3. PICK new : new = [row EXCEPT !.jti = r, !.expired = FALSE] /\ sessions' = [sessions EXCEPT ![s] = new]
  BY <1>1
<1>4. new.jti = r /\ new.state = row.state
  <2> HIDE DEF row
  <2> QED BY <1>2, <1>3
<1>5. Current[s] # Nobody /\ Ledger!Unused(r)
  BY <1>1, <1>2 DEF Current, Fresh, Ledger!Unused
<1>6. /\ DOMAIN sessions' = Creators /\ sessions'[s].jti = r /\ sessions'[s].state = sessions[s].state
      /\ \A q \in Creators \ {s} : sessions'[q] = sessions[q]
  BY <1>1, <1>3, <1>4
<1>7. Current' = [Current EXCEPT ![s] = r]
  BY <1>1, <1>6 DEF Current
<1>8. Revoked' = Revoked
  BY <1>6 DEF Revoked
<1>9. Spent' = Spent \cup {Current[s]}
  <2>1. CurrentToken(s).jti = Current[s]
    BY <1>1 DEF CurrentToken, Current
  <2>2. retired' = retired \cup {CurrentToken(s)}
    BY <1>1
  <2> HIDE DEF row
  <2>3. \A T, t : {u.jti : u \in T \cup {t}} = {u.jti : u \in T} \cup {t.jti}
    OBVIOUS
  <2> QED BY <2>1, <2>2, <2>3 DEF Spent
<1> QED BY <1>1, <1>5, <1>6, <1>7, <1>8, <1>9 DEF Ledger!Replace, Current, Spent, Revoked

LEMMA RevokeRevokes ==
  ASSUME SessionInv, NEW r \in Logouts, Revoke(r)
  PROVE  \E s \in Creators : Ledger!Revoke(s)
<1> DEFINE s == token[r].sid
<1>1. /\ s \in Creators /\ sessions[s] # NoSession
      /\ sessions' = [sessions EXCEPT ![s].state = "revoked"]
      /\ sessions \in [Creators -> SessionRows]
      /\ UNCHANGED <<users, retired>>
  BY DEF Revoke, SessionInv, TokenInv, TypeOK, Tokens
<1> HIDE DEF s
<1> DEFINE row == sessions[s]
<1>2. /\ row \in [state : {"active", "revoked"}, jti : Creators \cup Refreshes,
                  expired : BOOLEAN]
      /\ row.jti # Nobody
  BY <1>1, RowsHaveTokens
<1>3. PICK new : new = [row EXCEPT !.state = "revoked"] /\ sessions' = [sessions EXCEPT ![s] = new]
  BY <1>1
<1>4. new.jti = row.jti /\ new.state = "revoked"
  <2> HIDE DEF row
  <2> QED BY <1>2, <1>3
<1>5. Current' = Current /\ Revoked' = Revoked \cup {s} /\ Spent' = Spent
  BY <1>1, <1>3, <1>4 DEF Current, Revoked, Spent
<1> QED BY <1>1, <1>2, <1>5 DEF Ledger!Revoke, Current, Spent, Revoked

\* The ledger does not see that a session expires.
LEMMA ExpireUnseen ==
  ASSUME SessionInv, NEW s \in Creators, Expire(s)
  PROVE  UNCHANGED Ledger!vars
<1> DEFINE row == sessions[s]
<1>1. sessions[s] # NoSession /\ sessions \in [Creators -> SessionRows]
  BY DEF Expire, NoSession, SessionInv, TypeOK
<1>2. row \in [state : {"active", "revoked"}, jti : Creators \cup Refreshes, expired : BOOLEAN]
  BY <1>1, RowsHaveTokens
<1>3. PICK new : new = [row EXCEPT !.expired = TRUE] /\ sessions' = [sessions EXCEPT ![s] = new]
  BY DEF Expire
<1>4. new.jti = row.jti /\ new.state = row.state
  <2> HIDE DEF row
  <2> QED BY <1>2, <1>3
<1>5. Current' = Current /\ Revoked' = Revoked
  BY <1>1, <1>3, <1>4 DEF Current, Revoked
<1> QED BY <1>5 DEF Expire, Ledger!vars, Current, Revoked

LEMMA StepLedger == SessionInv /\ [Next]_vars => [Ledger!Next]_Ledger!vars
<1> SUFFICES ASSUME SessionInv, [Next]_vars PROVE [Ledger!Next]_Ledger!vars
  OBVIOUS
<1>1. ASSUME NEW r \in Creators, CommitCreation(r) PROVE Ledger!Next
  BY <1>1, CommitOpens DEF Ledger!Next
<1>2. ASSUME NEW r \in Refreshes, Rotate(r) PROVE Ledger!Next
  BY <1>2, RotateReplaces DEF Ledger!Next
<1>3. ASSUME NEW r \in Logouts, Revoke(r) PROVE Ledger!Next
  BY <1>3, RevokeRevokes DEF Ledger!Next
<1>4. ASSUME NEW s \in Creators, Expire(s) PROVE UNCHANGED Ledger!vars
  BY <1>4, ExpireUnseen
<1>5. ASSUME NEW r,
             \/ InsertUser(r) \/ TouchUser(r) \/ InsertSession(r) \/ Answer(r)
             \/ RefreshReads(r) \/ LogoutReads(r) \/ ClearCookies(r) \/ Send(r) \/ Abort(r)
             \/ \E e \in EmailsOf[r] : RegisterReads(r, e) \/ LoginReads(r, e)
      PROVE  UNCHANGED Ledger!vars
  BY <1>5, SameRowsSameLedger
  DEF InsertUser, TouchUser, InsertSession, Answer, RefreshReads, LogoutReads, ClearCookies, Send,
      Abort, RegisterReads, LoginReads
<1>6. CASE UNCHANGED vars
  BY <1>6, SameRowsSameLedger DEF vars
<1> QED
  BY <1>1, <1>2, <1>3, <1>4, <1>5, <1>6
  DEF Next, RegisterStep, LoginStep, RefreshStep, LogoutStep, Creators

\* AuthSessions implements TokenLedger, for any number of emails, registrations,
\* logins, refreshes and logouts, although they read rows that others are about
\* to write: an email's account is never replaced, a token that a rotation has
\* replaced never comes back, and a revocation is never undone.
THEOREM LedgerRefinement == Spec => KeepsTheLedger
<1>1. Init => Ledger!Init
  BY InitLedger
<1>2. SessionInv /\ [Next]_vars => [Ledger!Next]_Ledger!vars
  BY StepLedger
<1> QED BY <1>1, <1>2, SessionsInvariant, PTL DEF Spec, KeepsTheLedger, Ledger!Spec

-----------------------------------------------------------------------------
(* Who holds the token of a session.                                          *)

\* The request that has committed the token of session s is about to answer for s.
IssuerInv ==
  \A s \in Creators :
    sessions[s] # NoSession /\ stage[sessions[s].jti] = "committed" => SessionOf(sessions[s].jti) = s

\* A logout about to answer leaves no session usable with the token it has brought.
LogoutInv ==
  \A q \in Logouts, s \in Creators : stage[q] = "clear" /\ token[q] = CurrentToken(s) => ~ Usable(s)

HolderInv == IssuerInv /\ LogoutInv

\* Nobody has a token of a session whose creation is not answered yet.
UnansweredInv ==
  \A c \in Creators : stage[c] = "committed" =>
    /\ \A b \in Browsers : jar[b].sid # c
    /\ \A q \in Refreshes \cup Logouts : token[q].sid # c

\* A session with a holder is there, and its token has an issuer that has committed.
LEMMA HeldIsThere ==
  ASSUME SessionInv, NEW s \in Creators, Held(s)
  PROVE  /\ sessions[s] # NoSession /\ sessions[s].jti \in Creators \cup Refreshes
         /\ stage[sessions[s].jti] \in {"committed", "done", "lost"}
<1>1. Nobody \notin Creators \cup Refreshes
  BY RequestsAreDistinct DEF Creators
<1>2. sessions[s] # NoSession
  <2> SUFFICES ASSUME sessions[s] = NoSession PROVE FALSE
    OBVIOUS
  <2>1. CurrentToken(s) = [sid |-> s, jti |-> Nobody]
    BY DEF CurrentToken, NoSession
  <2>2. CurrentToken(s) \notin Tokens /\ CurrentToken(s) # NoToken
    BY <1>1, <2>1 DEF Tokens, NoToken
  <2> QED BY <1>1, <2>2 DEF Held, NoSession, SessionInv, TypeOK
<1>3. sessions[s].jti \in Creators \cup Refreshes
  BY <1>2, RowsHaveTokens
<1> QED BY <1>2, <1>3 DEF SessionInv, CreatorInv, TokenInv, Fresh

\* A step that leaves the tokens of sessions and browsers, and the request that
\* has issued a token to its answer, leaves the holders.
LEMMA HoldersStay ==
  ASSUME SessionInv, NEW s \in Creators, Held(s), sessions'[s].jti = sessions[s].jti, jar' = jar,
         stage'[sessions[s].jti] = stage[sessions[s].jti]
  PROVE  Held(s)'
BY DEF Held, CurrentToken

\* The parts of a step that matter to HolderInv: a request that has not committed
\* and does not, in rows that keep their tokens.
LEMMA UncommittedKeepHolders ==
  ASSUME SessionInv, HolderInv, SameTokens, NEW r \in Reqs, NEW to \in Stages,
         stage' = [stage EXCEPT ![r] = to], to # "committed",
         \A q \in (Refreshes \cup Logouts) \ {r} : token'[q] = token[q],
         \A s \in Creators : Usable(s)' => Usable(s),
         r \in Logouts /\ to = "clear" =>
           \A s \in Creators : token'[r] = CurrentToken(s) => ~ Usable(s)'
  PROVE  HolderInv'
<1>1. IssuerInv'
  <2> SUFFICES ASSUME NEW s \in Creators, sessions'[s] # NoSession, stage'[sessions'[s].jti] = "committed"
               PROVE  SessionOf(sessions[s].jti)' = s
    BY DEF IssuerInv
  <2>0. PICK j : j = sessions[s].jti
    OBVIOUS
  <2>1. sessions[s] # NoSession /\ sessions'[s].jti = j /\ j \in Creators \cup Refreshes
    BY <2>0, RowsHaveTokens DEF SameTokens
  <2>2. j # r /\ stage[j] = "committed"
    BY <2>1 DEF SessionInv, TypeOK, Reqs
  <2>3. SessionOf(j) = s
    BY <2>0, <2>1, <2>2 DEF HolderInv, IssuerInv
  <2> QED BY <2>1, <2>2, <2>3 DEF SessionOf
<1>2. LogoutInv'
  <2> SUFFICES ASSUME NEW q \in Logouts, NEW s \in Creators, stage'[q] = "clear",
                      token'[q] = CurrentToken(s)', Usable(s)'
               PROVE  FALSE
    BY DEF LogoutInv
  <2>1. CurrentToken(s)' = CurrentToken(s)
    BY DEF CurrentToken, SameTokens
  <2>2. CASE q = r
    <3>1. to = "clear"
      BY <2>2 DEF SessionInv, TypeOK, Reqs
    <3> QED BY <2>1, <2>2, <3>1
  <2>3. CASE q # r
    <3>1. stage[q] = "clear" /\ token[q] = CurrentToken(s)
      BY <2>1, <2>3 DEF SessionInv, TypeOK, Reqs
    <3> QED BY <3>1 DEF HolderInv, LogoutInv
  <2> QED BY <2>2, <2>3
<1> QED BY <1>1, <1>2 DEF HolderInv

\* A commit or a rotation gives session s a token r that nobody has.
LEMMA NewTokenKeepsHolders ==
  ASSUME SessionInv, HolderInv, NEW r \in Creators \cup Refreshes, NEW s \in Creators,
         Fresh(r), stage[r] \notin {"committed", "done", "lost"},
         stage' = [stage EXCEPT ![r] = "committed"], UNCHANGED token,
         SessionOf(r) = s, sessions'[s].jti = r,
         \A q \in Creators \ {s} : sessions'[q] = sessions[q]
  PROVE  HolderInv'
<1>0. r \in Reqs /\ r \notin Logouts
  BY RequestsAreDistinct DEF Reqs, Creators
<1>1. IssuerInv'
  <2> SUFFICES ASSUME NEW q \in Creators, sessions'[q] # NoSession, stage'[sessions'[q].jti] = "committed"
               PROVE  SessionOf(sessions[q].jti)' = q
    BY DEF IssuerInv
  <2>1. CASE q = s
    BY <2>1 DEF SessionOf
  <2>2. CASE q # s
    <3>1. sessions[q] # NoSession /\ sessions'[q] = sessions[q]
      BY <2>2
    <3>2. sessions[q].jti # r /\ sessions[q].jti \in Reqs
      BY <3>1, RowsHaveTokens DEF Fresh, Reqs
    <3>3. stage[sessions[q].jti] = "committed"
      BY <3>1, <3>2 DEF SessionInv, TypeOK
    <3> QED BY <3>1, <3>3 DEF HolderInv, IssuerInv, SessionOf
  <2> QED BY <2>1, <2>2
<1>2. LogoutInv'
  <2> SUFFICES ASSUME NEW q \in Logouts, NEW c \in Creators, stage'[q] = "clear",
                      token[q] = CurrentToken(c)'
               PROVE  ~ Usable(c)'
    BY DEF LogoutInv
  <2>1. stage[q] = "clear" /\ token[q].jti # r
    BY <1>0 DEF SessionInv, TypeOK, Reqs, Fresh
  <2>2. c # s
    BY <2>1 DEF CurrentToken
  <2> QED BY <2>1, <2>2 DEF HolderInv, LogoutInv, CurrentToken, Usable
<1> QED BY <1>1, <1>2 DEF HolderInv

\* What a commit and a rotation do.
LEMMA CommitGives ==
  ASSUME SessionInv, NEW r \in Creators, CommitCreation(r)
  PROVE  /\ stage[r] = "commit" /\ Fresh(r) /\ SessionOf(r) = r
         /\ stage' = [stage EXCEPT ![r] = "committed"] /\ UNCHANGED <<token, jar>>
         /\ sessions'[r].jti = r /\ \A q \in Creators \ {r} : sessions'[q] = sessions[q]
BY DEF CommitCreation, Goto, SessionInv, CreatorInv, SessionOf, TypeOK

LEMMA RotateGives ==
  ASSUME SessionInv, NEW r \in Refreshes, Rotate(r)
  PROVE  \E s \in Creators :
           /\ stage[r] = "rotate" /\ Fresh(r) /\ SessionOf(r) = s
           /\ stage' = [stage EXCEPT ![r] = "committed"] /\ UNCHANGED <<token, jar>>
           /\ sessions'[s].jti = r /\ \A q \in Creators \ {s} : sessions'[q] = sessions[q]
<1>1. PICK s \in Creators : s = token[r].sid /\ Ledger!Replace(s, r)
                           /\ \A q \in Creators \ {s} : sessions'[q] = sessions[q]
  BY RotateReplaces
<1>2. sessions'[s].jti = r
  BY <1>1 DEF Ledger!Replace
<1> QED BY <1>1, <1>2, RequestsAreDistinct DEF Rotate, Goto, SessionInv, TokenInv, SessionOf, Creators

\* The other steps of a request: its session rows keep their tokens.
Plain(r) ==
  \/ InsertUser(r) \/ TouchUser(r) \/ InsertSession(r)
  \/ RefreshReads(r) \/ (r \in Logouts /\ LogoutReads(r)) \/ (r \notin Creators /\ Send(r))
  \/ \E e \in EmailsOf[r] : RegisterReads(r, e) \/ LoginReads(r, e)

LEMMA PlainStep ==
  ASSUME SessionInv, NEW r \in Reqs, Plain(r)
  PROVE  \E to \in Stages :
           /\ stage' = [stage EXCEPT ![r] = to] /\ to \notin {"committed", "lost"}
           /\ stage[r] \notin {"committed", "done", "lost"}
           /\ sessions' = sessions /\ jar' = jar
           /\ \A q \in (Refreshes \cup Logouts) \ {r} : token'[q] = token[q]
           /\ r \in Logouts /\ to = "clear" =>
                \A s \in Creators : token'[r] = CurrentToken(s) => ~ Usable(s)
<1> USE DEF Stages, Ended, End, Goto, SessionInv, TypeOK
<1>1. CASE InsertUser(r) \/ TouchUser(r) \/ InsertSession(r) \/ RefreshReads(r)
  BY <1>1 DEF InsertUser, TouchUser, InsertSession, RefreshReads
<1>2. CASE r \in Logouts /\ LogoutReads(r)
  <2>1. \A s \in Creators : token[r] = CurrentToken(s) => token[r].sid = s
    BY DEF CurrentToken
  <2>2. ~ ValidRefreshToken(token[r]) => \A s \in Creators : token[r] = CurrentToken(s) => ~ Usable(s)
    BY <2>1 DEF ValidRefreshToken
  <2>3. /\ stage[r] = "sent" /\ UNCHANGED <<sessions, jar, token>>
        /\ \/ stage' = [stage EXCEPT ![r] = "revoke"]
           \/ stage' = [stage EXCEPT ![r] = "clear"] /\ ~ ValidRefreshToken(token[r])
    BY <1>2 DEF LogoutReads
  <2> QED BY <2>2, <2>3
<1>3. CASE r \notin Creators /\ Send(r)
  <2>1. \A s \in Creators : NoToken # CurrentToken(s)
    BY RequestsAreDistinct DEF NoToken, CurrentToken, Creators
  <2> QED BY <1>3, <2>1 DEF Send
<1>4. CASE \E e \in EmailsOf[r] : RegisterReads(r, e) \/ LoginReads(r, e)
  BY <1>4 DEF RegisterReads, LoginReads
<1> QED BY <1>1, <1>2, <1>3, <1>4 DEF Plain

LEMMA StepCases ==
  ASSUME [Next]_vars
  PROVE  \/ \E r \in Creators : CommitCreation(r)
         \/ \E r \in Refreshes : Rotate(r)
         \/ \E r \in Creators \cup Refreshes : Answer(r)
         \/ \E r \in Logouts : Revoke(r) \/ ClearCookies(r)
         \/ \E s \in Creators : Expire(s)
         \/ \E r \in Reqs : Abort(r) \/ Plain(r)
         \/ UNCHANGED vars
<1>1. ASSUME NEW r \in Registers, RegisterStep(r) \/ \E e \in EmailsOf[r] : RegisterReads(r, e)
      PROVE  CommitCreation(r) \/ Answer(r) \/ Plain(r)
  BY <1>1 DEF RegisterStep, Plain
<1>2. ASSUME NEW r \in Logins, LoginStep(r) \/ \E e \in EmailsOf[r] : LoginReads(r, e)
      PROVE  CommitCreation(r) \/ Answer(r) \/ Plain(r)
  BY <1>2 DEF LoginStep, Plain
<1>3. ASSUME NEW r \in Refreshes, RefreshStep(r) PROVE Rotate(r) \/ Answer(r) \/ Plain(r)
  BY <1>3 DEF RefreshStep, Plain
<1>4. ASSUME NEW r \in Logouts, LogoutStep(r) PROVE Revoke(r) \/ ClearCookies(r) \/ Plain(r)
  BY <1>4 DEF LogoutStep, Plain
<1>5. ASSUME NEW r \in Refreshes \cup Logouts, Send(r) PROVE Plain(r)
  BY <1>5, RequestsAreDistinct DEF Plain, Creators
<1>6. Creators \subseteq Reqs /\ Refreshes \subseteq Reqs /\ Logouts \subseteq Reqs
      /\ Registers \subseteq Creators /\ Logins \subseteq Creators
  BY DEF Reqs, Creators
<1> QED BY <1>1, <1>2, <1>3, <1>4, <1>5, <1>6 DEF Next

LEMMA StepKeepsHolderInv == SessionInv /\ HolderInv /\ [Next]_vars => HolderInv'
<1> SUFFICES ASSUME SessionInv, HolderInv, [Next]_vars PROVE HolderInv'
  OBVIOUS
<1>1. ASSUME NEW r \in Creators, CommitCreation(r) PROVE HolderInv'
  BY <1>1, CommitGives, NewTokenKeepsHolders
<1>2. ASSUME NEW r \in Refreshes, Rotate(r) PROVE HolderInv'
  BY <1>2, RotateGives, NewTokenKeepsHolders
<1>3. ASSUME NEW r \in Reqs, NEW to \in Ended, End(r, to), sessions' = sessions PROVE HolderInv'
  <2>1. /\ to \in Stages /\ to # "committed" /\ to # "clear" /\ stage' = [stage EXCEPT ![r] = to]
        /\ \A q \in (Refreshes \cup Logouts) \ {r} : token'[q] = token[q]
        /\ \A s \in Creators : Usable(s)' => Usable(s)
    BY <1>3 DEF End, Goto, Stages, Ended, Usable
  <2>2. SameTokens
    BY <1>3, UnchangedSameTokens
  <2>3. ~ (r \in Logouts /\ to = "clear")
    BY <2>1
  <2> QED BY <2>1, <2>2, <2>3, UncommittedKeepHolders
<1>4. ASSUME NEW r \in Reqs, Answer(r) \/ ClearCookies(r) \/ Abort(r) PROVE HolderInv'
  BY <1>3, <1>4 DEF Answer, ClearCookies, Abort, Ended
<1>5. ASSUME NEW r \in Logouts, Revoke(r) PROVE HolderInv'
  <2>1. /\ token[r].sid \in Creators /\ sessions[token[r].sid] # NoSession
        /\ stage' = [stage EXCEPT ![r] = "clear"] /\ token' = token /\ r \in Reqs
    BY <1>5 DEF Revoke, Goto, SessionInv, TokenInv, Tokens, Reqs
  <2>2. SameTokens
    BY <1>5, <2>1, MarkingKeepsTokens DEF Revoke
  <2>3. sessions'[token[r].sid].state = "revoked"
    BY <1>5, <2>1, RowsHaveTokens DEF Revoke, SessionInv, TypeOK
  <2>4. \A s \in Creators : s # token[r].sid => sessions'[s] = sessions[s]
    BY <1>5 DEF Revoke, SessionInv, TypeOK
  <2>5. \A s \in Creators : Usable(s)' => Usable(s)
    BY <2>3, <2>4 DEF Usable
  <2>6. \A s \in Creators : token'[r] = CurrentToken(s) => ~ Usable(s)'
    BY <2>1, <2>3 DEF CurrentToken, Usable
  <2> QED BY <2>1, <2>2, <2>5, <2>6, UncommittedKeepHolders DEF Stages
<1>6. ASSUME NEW s \in Creators, Expire(s) PROVE HolderInv'
  <2>1. sessions[s] # NoSession
    BY <1>6 DEF Expire, NoSession
  <2>2. SameTokens
    BY <1>6, <2>1, MarkingKeepsTokens DEF Expire
  <2>3. sessions'[s].expired
    BY <1>6, <2>1, RowsHaveTokens DEF Expire, SessionInv, TypeOK
  <2>4. \A q \in Creators : q # s => sessions'[q] = sessions[q]
    BY <1>6 DEF Expire, SessionInv, TypeOK
  <2>5. \A q \in Creators : Usable(q)' => Usable(q)
    BY <2>3, <2>4 DEF Usable
  <2> QED BY <1>6, <2>2, <2>5
          DEF Expire, HolderInv, IssuerInv, LogoutInv, SameTokens, CurrentToken, SessionOf
<1>7. ASSUME NEW r \in Reqs, Plain(r) PROVE HolderInv'
  <2>1. PICK to \in Stages :
           /\ stage' = [stage EXCEPT ![r] = to] /\ to \notin {"committed", "lost"}
           /\ sessions' = sessions
           /\ \A q \in (Refreshes \cup Logouts) \ {r} : token'[q] = token[q]
           /\ r \in Logouts /\ to = "clear" =>
                \A s \in Creators : token'[r] = CurrentToken(s) => ~ Usable(s)
    BY <1>7, PlainStep
  <2>2. \A s \in Creators : Usable(s)' <=> Usable(s)
    BY <2>1 DEF Usable
  <2> QED BY <2>1, <2>2, UnchangedSameTokens, UncommittedKeepHolders
<1>8. CASE UNCHANGED vars
  BY <1>8 DEF vars, HolderInv, IssuerInv, LogoutInv, CurrentToken, SessionOf, Usable
<1> QED BY <1>1, <1>2, <1>4, <1>5, <1>6, <1>7, <1>8, StepCases DEF Reqs

LEMMA UnansweredFrame ==
  ASSUME SessionInv, UnansweredInv,
         \A c \in Creators : stage'[c] = "committed" => stage[c] = "committed",
         \A b \in Browsers :
           jar'[b] \in {jar[b], NoToken} \/ \A c \in Creators : stage'[c] = "committed" => jar'[b].sid # c,
         \A q \in Refreshes \cup Logouts :
           token'[q] \in {token[q], NoToken} \/ \E b \in Browsers : token'[q] = jar[b]
  PROVE  UnansweredInv'
<1>1. \A c \in Creators : NoToken.sid # c
  BY RequestsAreDistinct DEF NoToken, Creators
<1> QED BY <1>1 DEF UnansweredInv

LEMMA StepKeepsUnansweredInv == SessionInv /\ UnansweredInv /\ [Next]_vars => UnansweredInv'
<1> SUFFICES ASSUME SessionInv, UnansweredInv, [Next]_vars PROVE UnansweredInv'
  OBVIOUS
<1>1. ASSUME NEW r \in Creators, CommitCreation(r) PROVE UnansweredInv'
  <2>1. /\ sessions[r] = NoSession /\ stage' = [stage EXCEPT ![r] = "committed"]
        /\ UNCHANGED <<token, jar>> /\ r \in Reqs
    BY <1>1 DEF CommitCreation, Goto, SessionInv, CreatorInv, Reqs
  <2>2. NoToken.sid # r
    BY RequestsAreDistinct DEF NoToken, Creators
  <2>3. \A b \in Browsers : jar[b].sid # r
    BY <2>1, <2>2 DEF SessionInv, TypeOK, TokenInv
  <2>4. \A q \in Refreshes \cup Logouts : token[q].sid # r
    BY <2>1, <2>2 DEF SessionInv, TypeOK, TokenInv
  <2> QED BY <2>1, <2>3, <2>4 DEF UnansweredInv, SessionInv, TypeOK, Reqs
<1>2. ASSUME NEW r \in Reqs, NEW to \in Stages, stage' = [stage EXCEPT ![r] = to],
             to # "committed" \/ r \notin Creators,
             \A b \in Browsers : jar'[b] \in {jar[b], NoToken},
             \A q \in Refreshes \cup Logouts :
               token'[q] \in {token[q], NoToken} \/ \E b \in Browsers : token'[q] = jar[b]
      PROVE  UnansweredInv'
  <2>1. \A c \in Creators : stage'[c] = "committed" => stage[c] = "committed"
    BY <1>2 DEF SessionInv, TypeOK, Reqs
  <2> QED BY <1>2, <2>1, UnansweredFrame
<1>3. ASSUME NEW r \in Refreshes, Rotate(r) PROVE UnansweredInv'
  BY <1>2, <1>3, RotateGives, RequestsAreDistinct DEF Reqs, Creators, Stages
<1>4. ASSUME NEW r \in Creators \cup Refreshes, Answer(r) PROVE UnansweredInv'
  <2>1. /\ r \in Reqs /\ stage[r] = "committed" /\ stage'[r] = "done"
        /\ \A q \in Reqs \ {r} : stage'[q] = stage[q]
        /\ \A q \in Refreshes \cup Logouts : token'[q] \in {token[q], NoToken}
        /\ jar' = [jar EXCEPT ![BrowserOf[r]] = [sid |-> SessionOf(r), jti |-> r]]
    BY <1>4 DEF Answer, End, Goto, SessionInv, TypeOK, Reqs
  <2>2. \A c \in Creators : stage'[c] = "committed" => stage[c] = "committed" /\ SessionOf(r) # c
    <3> SUFFICES ASSUME NEW c \in Creators, stage'[c] = "committed"
                 PROVE  stage[c] = "committed" /\ SessionOf(r) # c
      OBVIOUS
    <3>1. c # r /\ stage[c] = "committed"
      BY <2>1 DEF Reqs
    <3> QED BY <3>1 DEF SessionOf, UnansweredInv
  <2>3. \A b \in Browsers :
          jar'[b] = jar[b] \/ jar'[b] = [sid |-> SessionOf(r), jti |-> r]
    BY <2>1 DEF SessionInv, TypeOK
  <2> QED BY <2>1, <2>2, <2>3, UnansweredFrame
<1>5. ASSUME NEW r \in Reqs, Plain(r) PROVE UnansweredInv'
  <2>1. PICK to \in Stages : stage' = [stage EXCEPT ![r] = to] /\ to # "committed" /\ jar' = jar
    BY <1>5, PlainStep
  <2>2. \A q \in Refreshes \cup Logouts :
          token'[q] \in {token[q], NoToken} \/ \E b \in Browsers : token'[q] = jar[b]
    <3>1. CASE r \notin Creators /\ Send(r)
      <4>1. r \in Refreshes \cup Logouts /\ BrowserOf[r] \in Browsers
        BY <3>1, BrowsersAssumption DEF Reqs
      <4>2. token' = [token EXCEPT ![r] = jar[BrowserOf[r]]] \/ End(r, "done")
        BY <3>1 DEF Send
      <4> QED BY <4>1, <4>2 DEF End, SessionInv, TypeOK
    <3>2. CASE ~ (r \notin Creators /\ Send(r))
      <4>1. token' = token \/ \E how : End(r, how)
        BY <1>5, <3>2
           DEF Plain, InsertUser, TouchUser, InsertSession, RefreshReads, LogoutReads, RegisterReads, LoginReads
      <4> QED BY <4>1 DEF End
    <3> QED BY <3>1, <3>2
  <2> QED BY <1>2, <2>1, <2>2
<1>6. ASSUME NEW r \in Reqs, ClearCookies(r) \/ Abort(r) PROVE UnansweredInv'
  <2>1. PICK to \in Ended : End(r, to)
    BY <1>6 DEF ClearCookies, Abort, Ended
  <2>2. /\ to \in Stages /\ to # "committed" /\ stage' = [stage EXCEPT ![r] = to]
        /\ \A q \in Refreshes \cup Logouts : token'[q] \in {token[q], NoToken}
    BY <2>1 DEF End, Goto, Stages, Ended
  <2>3. \A b \in Browsers : jar'[b] \in {jar[b], NoToken}
    BY <1>6 DEF ClearCookies, Abort, SessionInv, TypeOK
  <2> QED BY <1>2, <2>2, <2>3
<1>7. ASSUME NEW r \in Logouts, Revoke(r) PROVE UnansweredInv'
  BY <1>2, <1>7 DEF Revoke, Goto, Stages, Reqs
<1>8. CASE (\E s \in Creators : Expire(s)) \/ UNCHANGED vars
  BY <1>8 DEF Expire, vars, UnansweredInv
<1> QED BY <1>1, <1>3, <1>4, <1>5, <1>6, <1>7, <1>8, StepCases DEF Reqs

\* The rows a request relies on hold who is to answer with which token.
THEOREM HoldersInvariant == Spec => [](SessionInv /\ HolderInv /\ UnansweredInv)
<1>1. Init => HolderInv
  <2> SUFFICES ASSUME Init PROVE HolderInv
    OBVIOUS
  <2>1. \A s \in Creators : sessions[s] = NoSession
    BY DEF Init
  <2>2. \A q \in Logouts : stage[q] = "post"
    BY DEF Init, Reqs
  <2> QED BY <2>1, <2>2 DEF HolderInv, IssuerInv, LogoutInv
<1>2. Init => UnansweredInv
  BY DEF Init, UnansweredInv, Reqs
<1> QED BY <1>1, <1>2, InitSessionInv, StepKeepsSessionInv, StepKeepsHolderInv, StepKeepsUnansweredInv,
           PTL DEF Spec

\* A step that takes the token of a usable session from its holder is one of the
\* causes.
LEMMA StrandingStep ==
  ASSUME SessionInv, HolderInv, UnansweredInv, [Next]_vars, NEW s \in Creators,
         Held(s), Usable(s)', ~ Held(s)'
  PROVE  \E r \in Reqs : stage'[r] # stage[r] /\ Strands(r, s)
<1>0. PICK j : j = sessions[s].jti
  OBVIOUS
<1>1. sessions[s] # NoSession /\ j \in Creators \cup Refreshes /\ j \in Reqs
      /\ stage[j] \in {"committed", "done", "lost"}
  BY <1>0, HeldIsThere DEF Reqs
<1>2. ASSUME NEW r \in Creators \cup Refreshes, NEW q \in Creators,
             Fresh(r), stage[r] \notin {"committed", "done", "lost"},
             stage' = [stage EXCEPT ![r] = "committed"], jar' = jar, sessions'[q].jti = r,
             \A p \in Creators \ {q} : sessions'[p] = sessions[p]
      PROVE  FALSE
  <2>1. CASE q = s
    <3>1. stage'[r] = "committed"
      BY <1>2 DEF SessionInv, TypeOK, Reqs
    <3> QED BY <1>2, <2>1, <3>1 DEF Held
  <2>2. CASE q # s
    <3>1. j # r /\ stage'[j] = stage[j] /\ sessions'[s].jti = j
      BY <1>0, <1>1, <1>2, <2>2 DEF SessionInv, TypeOK
    <3> QED BY <1>0, <1>2, <3>1, HoldersStay
  <2> QED BY <2>1, <2>2
<1>3. ASSUME NEW r \in Creators, CommitCreation(r) PROVE FALSE
  BY <1>2, <1>3, CommitGives
<1>4. ASSUME NEW r \in Refreshes, Rotate(r) PROVE FALSE
  BY <1>2, <1>4, RotateGives
<1>5. ASSUME NEW r \in Reqs, jar' = jar, SameTokens, NEW to \in Stages, stage' = [stage EXCEPT ![r] = to],
             stage[r] \notin {"committed", "done", "lost"}
      PROVE  FALSE
  <2>1. stage'[j] = stage[j] /\ sessions'[s].jti = j
    BY <1>0, <1>1, <1>5 DEF SessionInv, TypeOK, SameTokens
  <2> QED BY <1>0, <1>5, <2>1, HoldersStay
<1>6. ASSUME NEW r \in Reqs, Plain(r) PROVE FALSE
  BY <1>5, <1>6, PlainStep, UnchangedSameTokens
<1>7. ASSUME NEW r \in Logouts, Revoke(r) PROVE FALSE
  <2>1. /\ token[r].sid \in Creators /\ sessions[token[r].sid] # NoSession /\ r \in Reqs
        /\ stage' = [stage EXCEPT ![r] = "clear"] /\ jar' = jar /\ stage[r] = "revoke" /\ "clear" \in Stages
    BY <1>7 DEF Revoke, Goto, SessionInv, TokenInv, Tokens, Reqs, Stages
  <2>2. SameTokens
    BY <1>7, <2>1, MarkingKeepsTokens DEF Revoke
  <2> QED BY <1>5, <2>1, <2>2
<1>8. ASSUME NEW c \in Creators, Expire(c) PROVE FALSE
  <2>1. sessions[c] # NoSession
    BY <1>8 DEF Expire, NoSession
  <2>2. SameTokens
    BY <1>8, <2>1, MarkingKeepsTokens DEF Expire
  <2> QED BY <1>0, <1>8, <2>2, HoldersStay DEF Expire, SameTokens
<1>9. ASSUME NEW r \in Reqs, Abort(r) PROVE stage'[r] # stage[r] /\ Strands(r, s)
  <2>1. r = j
    <3> SUFFICES ASSUME r # j PROVE FALSE
      OBVIOUS
    <3>1. stage'[j] = stage[j] /\ sessions'[s].jti = j /\ jar' = jar
      BY <1>0, <1>1, <1>9 DEF Abort, End, Goto, SessionInv, TypeOK
    <3> QED BY <1>0, <3>1, HoldersStay
  <2>2. stage[r] = "committed" /\ stage'[r] = "lost"
    BY <1>1, <1>9, <2>1 DEF Abort, End, Goto, SessionInv, TypeOK, Ended
  <2> QED BY <1>0, <2>1, <2>2 DEF Strands
<1>10. ASSUME NEW r \in Reqs, stage'[r] = "done", stage[r] # "done", sessions' = sessions,
              \A b \in Browsers \ {BrowserOf[r]} : jar'[b] = jar[b],
              \A q \in Reqs \ {r} : stage'[q] = stage[q],
              jar'[BrowserOf[r]] # CurrentToken(s), j # r
       PROVE  jar[BrowserOf[r]] = CurrentToken(s)
  <2> SUFFICES ASSUME jar[BrowserOf[r]] # CurrentToken(s) PROVE FALSE
    OBVIOUS
  <2>1. CASE \E b \in Browsers : jar[b] = CurrentToken(s)
    BY <1>10, <2>1 DEF Held, CurrentToken
  <2>2. CASE stage[j] = "committed"
    BY <1>0, <1>1, <1>10, <2>2 DEF Held
  <2> QED BY <1>0, <2>1, <2>2 DEF Held
<1>11. ASSUME NEW r \in Creators \cup Refreshes, Answer(r) PROVE r \in Reqs /\ stage'[r] # stage[r] /\ Strands(r, s)
  <2>1. /\ r \in Reqs /\ stage[r] = "committed" /\ stage'[r] = "done" /\ sessions' = sessions
        /\ \A q \in Reqs \ {r} : stage'[q] = stage[q]
        /\ jar' = [jar EXCEPT ![BrowserOf[r]] = [sid |-> SessionOf(r), jti |-> r]]
        /\ BrowserOf[r] \in Browsers
    BY <1>11, BrowsersAssumption DEF Answer, End, Goto, SessionInv, TypeOK, Reqs
  <2>2. jar'[BrowserOf[r]] = [sid |-> SessionOf(r), jti |-> r]
        /\ \A b \in Browsers \ {BrowserOf[r]} : jar'[b] = jar[b]
    BY <2>1 DEF SessionInv, TypeOK
  <2>3. jar'[BrowserOf[r]] # CurrentToken(s)
    BY <2>1 DEF Held, CurrentToken
  <2>4. j # r
    <3> SUFFICES ASSUME j = r PROVE FALSE
      OBVIOUS
    <3>1. SessionOf(r) = s
      BY <1>0, <1>1, <2>1 DEF HolderInv, IssuerInv
    <3> QED BY <1>0, <2>2, <2>3, <3>1 DEF CurrentToken
  <2>5. jar[BrowserOf[r]] = CurrentToken(s)
    BY <1>10, <2>1, <2>2, <2>3, <2>4
  <2>6. r \in Creators => r # s
    BY <2>1, <2>5 DEF UnansweredInv, CurrentToken
  <2> QED BY <1>0, <2>1, <2>4, <2>5, <2>6 DEF Strands, Creators
<1>12. ASSUME NEW r \in Logouts, ClearCookies(r) PROVE r \in Reqs /\ stage'[r] # stage[r] /\ Strands(r, s)
  <2>1. /\ r \in Reqs /\ stage[r] = "clear" /\ stage'[r] = "done" /\ sessions' = sessions
        /\ \A q \in Reqs \ {r} : stage'[q] = stage[q]
        /\ \A b \in Browsers \ {BrowserOf[r]} : jar'[b] = jar[b]
        /\ BrowserOf[r] \in Browsers /\ jar'[BrowserOf[r]] = NoToken
    BY <1>12, BrowsersAssumption DEF ClearCookies, End, Goto, SessionInv, TypeOK, Reqs
  <2>2. NoToken # CurrentToken(s) /\ r # j
    BY <1>1, RequestsAreDistinct DEF NoToken, CurrentToken, Creators
  <2>3. jar[BrowserOf[r]] = CurrentToken(s)
    BY <1>10, <2>1, <2>2
  <2>4. Usable(s)
    BY <2>1 DEF Usable
  <2>5. token[r] # CurrentToken(s)
    BY <2>1, <2>4 DEF HolderInv, LogoutInv
  <2> QED BY <2>1, <2>3, <2>5 DEF Strands
<1>13. CASE UNCHANGED vars
  BY <1>0, <1>13, HoldersStay DEF vars
<1> QED BY <1>3, <1>4, <1>6, <1>7, <1>8, <1>9, <1>11, <1>12, <1>13, StepCases

\* A usable session loses the browser that can refresh it only by a lost answer, by
\* a new session for that browser, or by an older answer that arrives after the one
\* with its token, for any number of browsers and requests.
THEOREM StrandedCaused == Spec => StrandedSessionsHaveACause
<1> DEFINE Caused(s) ==
      Held(s) /\ Usable(s)' /\ ~ Held(s)' => \E r \in Reqs : stage'[r] # stage[r] /\ Strands(r, s)
<1>1. SessionInv /\ HolderInv /\ UnansweredInv /\ [Next]_vars => \A s \in Creators : Caused(s)
  BY StrandingStep
<1> QED BY <1>1, HoldersInvariant, PTL DEF Spec, StrandedSessionsHaveACause

=============================================================================
