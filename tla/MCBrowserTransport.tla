-------------------------- MODULE MCBrowserTransport --------------------------
EXTENDS BrowserTransport

\* What a load can meet, with a mode it can or cannot tighten; text that does
\* not parse has no cookie.
SomeFiles == {f \in ProfileFile : /\ f.cookie = f.parses
                                  /\ f.private => f.ours}
=============================================================================
