------------------------------ MODULE MCRequest ------------------------------
(* Request with a request to the API beside a health check.                  *)
EXTENDS Request

MCRequests == {"r1", "r2"}
MCRoutesOf == [r1 |-> {"api", "open"}, r2 |-> {"health"}]
MCObject == 1..15
MCRefusals == {[http |-> 401, code |-> 10003]}
MCErrors == {[http |-> 0, code |-> 7], [http |-> 404, code |-> 8]}
=============================================================================
