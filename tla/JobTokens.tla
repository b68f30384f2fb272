----------------------------- MODULE JobTokens ------------------------------
(***************************************************************************)
(* The signed job tokens of shared/go/jobtoken.  A token is always         *)
(* presented for the job it was signed for, so its job id is left out; of  *)
(* its expiry the age is kept, in ticks since it was signed, beyond TTL    *)
(* all the same.                                                           *)
(***************************************************************************)
EXTENDS Naturals

CONSTANTS
    Keys,   \* HMAC signing keys
    NoKey,  \* HMAC_SIGNING_KEY_PREV is not set
    TTL     \* how long a token is valid, in ticks

ASSUME TokenAssumption == NoKey \notin Keys /\ TTL \in Nat

\* What a process signs and validates with: HMAC_SIGNING_KEY, HMAC_SIGNING_KEY_PREV.
Signer == [key : Keys, prev : Keys \cup {NoKey}]

Token == [key : Keys, age : 0 .. TTL + 1]

\* With the current key only.
Sign(s) == [key |-> s.key, age |-> 0]

Older(t) == IF t.age <= TTL THEN [t EXCEPT !.age = @ + 1] ELSE t

Bug_ExpiredEarly(t) == t.age >= TTL

\* time.Now().Unix() > expiry
Expired(t) == t.age > TTL

ValidateWith(key, t) ==
    CASE t.key # key -> "invalid"
      [] t.key = key /\ Expired(t) -> "expired"
      [] OTHER -> "ok"

Bug_ValidateCurrentOnly(s, t) == ValidateWith(s.key, t)

\* The previous key is tried when the current one does not match, but not when it
\* matches and the token has expired.
Validate(s, t) ==
    IF s.prev # NoKey /\ ValidateWith(s.key, t) = "invalid"
    THEN ValidateWith(s.prev, t)
    ELSE ValidateWith(s.key, t)

Authorized(s, t) == Validate(s, t) = "ok"

\* s accepts, for the time being, what p signs.
Accepts(s, p) == p.key \in {s.key, s.prev}
=============================================================================
