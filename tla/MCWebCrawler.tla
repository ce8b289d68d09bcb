---------------------------- MODULE MCWebCrawler ----------------------------
(***************************************************************************)
(* The instance of WebCrawler for TLC: the servers and their addresses.    *)
(***************************************************************************)
EXTENDS WebCrawler, TLC

\* A server with two public addresses, of which one may never answer, and one
\* that resolves to a private address.
MCServers == {"near", "inside"}
MCAnswers == ("near" :> {"a1", "a2"}) @@ ("inside" :> {"p"})
MCAddresses == {"a1", "a2", "p", "0"}
=============================================================================
