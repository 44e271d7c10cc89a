---------------------------- MODULE TokenLedger ----------------------------
(***************************************************************************)
(* What the identity service promises of accounts and refresh tokens,      *)
(* whatever requests race: an email gets one account, for good; a session  *)
(* has one current token at a time; a token that was replaced, or that is  *)
(* in use, is never given out again; a revocation is never taken back.     *)
(***************************************************************************)
CONSTANTS Emails, Accounts, Sessions, Tokens, Nobody

VARIABLES
  owner,     \* the account of each email, or Nobody
  current,   \* the current token of each session, or Nobody
  spent,     \* the tokens that were replaced
  revoked    \* the sessions that were revoked

vars == <<owner, current, spent, revoked>>

Init ==
  /\ owner = [e \in Emails |-> Nobody]
  /\ current = [s \in Sessions |-> Nobody]
  /\ spent = {}
  /\ revoked = {}

Unused(t) == t \notin spent /\ \A s \in Sessions : current[s] # t

\* A session is opened, for a new account or an old one.
Open(s, t) ==
  /\ current[s] = Nobody /\ Unused(t)
  /\ current' = [current EXCEPT ![s] = t]
  /\ \/ owner' = owner
     \/ \E e \in Emails, a \in Accounts :
          owner[e] = Nobody /\ owner' = [owner EXCEPT ![e] = a]
  /\ UNCHANGED <<spent, revoked>>

Replace(s, t) ==
  /\ current[s] # Nobody /\ Unused(t)
  /\ current' = [current EXCEPT ![s] = t]
  /\ spent' = spent \cup {current[s]}
  /\ UNCHANGED <<owner, revoked>>

Revoke(s) ==
  /\ current[s] # Nobody
  /\ revoked' = revoked \cup {s}
  /\ UNCHANGED <<owner, current, spent>>

Next ==
  \E s \in Sessions : Revoke(s) \/ \E t \in Tokens : Open(s, t) \/ Replace(s, t)

Spec == Init /\ [][Next]_vars
=============================================================================
