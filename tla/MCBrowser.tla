----------------------------- MODULE MCBrowser ------------------------------
(* Instances of Browser for TLC: page a has text and a link to b, and a request
   for c is redirected to b. *)
EXTENDS Browser

Pages == [u \in {"a", "b", "c"} |->
            IF u = "a" THEN <<"PAGE", "BODY", "LINK", "PAGEEND">> ELSE <<"PAGE", "PAGEEND">>]
Redirects == [u \in {"a", "b", "c"} |-> IF u = "c" THEN {"b"} ELSE {u}]
LinksTo == [u \in {"a", "b", "c"} |-> "b"]

Session(services, typed, segments, requests_, resent_, receive) ==
  [services |-> services, typed |-> typed, segments |-> segments,
   requests |-> requests_, resent |-> resent_, receive |-> receive]
Streaming == {Session({"GET"}, {"a"}, {2}, 1, 0, 7)}
=============================================================================
