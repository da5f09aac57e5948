------------------------- MODULE MCBrowserTransport -------------------------
(* The browser's transport on a small instance.                             *)
EXTENDS BrowserTransport
=============================================================================
