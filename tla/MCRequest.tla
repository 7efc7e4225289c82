----------------------------- MODULE MCRequest -----------------------------
(* A handler that knows two status codes and the empty text, and writes up *)
(* to three pieces.                                                        *)
EXTENDS Request

Codes == {"199", "500", "empty"}
=============================================================================
