--------------------------- MODULE MCAuthSessions ---------------------------
(* AuthSessions for TLC.  All requests but the second registration come from one *)
(* browser; the first registration names the first email, which loses nothing,   *)
(* as emails are interchangeable.                                                *)
EXTENDS AuthSessions

CONSTANTS ann, bob, r1, r2, l1, f1, f2, o1, b1, b2

MCBrowserOf == [r \in {r1, r2, l1, f1, f2, o1} |-> IF r = r2 THEN b2 ELSE b1]
MCEmailsOf == [r \in {r1, r2, l1} |-> IF r = r1 THEN {ann} ELSE {ann, bob}]
=============================================================================
