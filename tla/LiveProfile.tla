----------------------------- MODULE LiveProfile -----------------------------
(***************************************************************************)
(* The file ~/.prism2api/live-profile.json, from which both the browser    *)
(* transport and the HTTP transport take the identity and the secrets of   *)
(* the remote session (transport/prism_web/live_profile.py).               *)
(***************************************************************************)

\* What a load can find: no file, a mode that lets others in, a mode this user
\* may not change, text that does not parse, a profile without a cookie.
ProfileFile == [exists: BOOLEAN, private: BOOLEAN, ours: BOOLEAN,
                parses: BOOLEAN, cookie: BOOLEAN]

\* A load tightens a mode it finds open before it looks at the contents; a
\* chmod that fails is swallowed and the mode is read again.
Tightened(f) == [f EXCEPT !.private = @ \/ (f.exists /\ f.ours)]

\* The load returns a profile; otherwise it raises AdmissionBlockedError.
Loads(f) == f.exists /\ Tightened(f).private /\ f.parses
=============================================================================
