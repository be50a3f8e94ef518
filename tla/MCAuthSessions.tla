--------------------------- MODULE MCAuthSessions ---------------------------
(* Instances of AuthSessions for TLC; the cfg files give the settings.      *)
EXTENDS AuthSessions, TLC

\* Handlers, session ids and token values are interchangeable.
Symmetry == Permutations(Requests) \cup Permutations(Sessions)
                                   \cup Permutations(Tokens)
=============================================================================
