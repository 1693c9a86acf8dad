-------------------------------- MODULE Token --------------------------------
(***************************************************************************)
(* pkg/token: what a signed token says and what parsing it answers, and    *)
(* core/middleware/middle_jwt.go, which maps the answer to a response.     *)
(* Times are in ticks, the stamps inside a token in whole seconds.         *)
(***************************************************************************)
LOCAL INSTANCE Naturals

CONSTANTS Second  \* ticks to a second

Unix(t) == t \div Second

\* JwtSign at time t with a life of d ticks, for user u.
JwtSign(u, secret, t, d) ==
    [form |-> "whole", user |-> u, secret |-> secret, nbf |-> Unix(t), exp |-> Unix(t + d)]

\* What is not a token at all: nobody knows where its claims are.  In a third form,
\* "claims", the header can be read and the claims cannot, or in part only.
Garbled == [form |-> "not", user |-> 0, secret |-> "", nbf |-> 0, exp |-> 0]

\* The library's findings, which add up: a stamp is compared by whole seconds,
\* and the second of exp itself still counts.
ParseErrors(tok, secret, t) ==
    IF tok.form # "whole" THEN {"malformed"}
    ELSE {e \in {"expired", "notYet", "signature"} :
            \/ e = "expired" /\ Unix(t) > tok.exp
            \/ e = "notYet" /\ Unix(t) < tok.nbf
            \/ e = "signature" /\ tok.secret # secret}

\* JwtParse: an expired token is called so whoever signed it.
JwtParse(tok, secret, t) ==
    LET errors == ParseErrors(tok, secret, t)
    IN  CASE errors = {} -> "valid"
          [] "malformed" \in errors -> "cannotParse"
          [] errors \cap {"expired", "notYet"} # {} -> "expiredOrNotActive"
          [] OTHER -> "cannotParse"

\* JwtParseUnsafe looks at the form only, and reports no error when the library has
\* got as far as the claims: they are handed out as far as they were read.
JwtParseUnsafe(tok) == IF tok.form = "not" THEN "cannotParse" ELSE "valid"

\* JwtParseFromAuthorizationHeader: a Bearer prefix is taken off when there is one.
FromHeader(header, secret, t) == JwtParse(header.token, secret, t)

\* The Jwt middleware: no header, no valid token or no user is 401.
Jwt(header, secret, t) ==
    IF ~header.present THEN "authorizationError"
    ELSE CASE FromHeader(header, secret, t) = "expiredOrNotActive" -> "tokenExpired"
           [] FromHeader(header, secret, t) = "cannotParse" -> "authorizationError"
           [] header.token.user <= 0 -> "authorizationError"
           [] OTHER -> "ok"
=============================================================================
