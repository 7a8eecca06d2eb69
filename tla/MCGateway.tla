------------------------------ MODULE MCGateway ------------------------------
(***************************************************************************)
(* Gateway on small instances.  Ann and Abe have keys, of which Abe's      *)
(* second one begins like Ann's; Bob and Cyd sit behind the proxy and have *)
(* none.                                                                   *)
(***************************************************************************)
EXTENDS Gateway, TLC

Get(path) == [client |-> "cyd", host |-> "proxy", forwarded |-> "cyd",
              key |-> NoKey, method |-> "GET", path |-> path,
              length |-> "missing", body |-> "valid"]

Ann == [Get("predict") EXCEPT !.client = "ann", !.forwarded = "ann",
                              !.key = <<"ann", "1">>, !.method = "POST",
                              !.length = "declared"]
Bob == [Ann EXCEPT !.client = "bob", !.forwarded = "bob", !.key = NoKey]
Abe == [Ann EXCEPT !.client = "abe", !.forwarded = "abe", !.key = <<"abe", "1">>]
AbePrefixed == [Abe EXCEPT !.key = <<"ann", "2">>]
Foreign == [Abe EXCEPT !.key = <<"abc", "foreign">>]

Keys == {Ann.key, Abe.key, AbePrefixed.key}
ForeignKeys == {Foreign.key}

\* One request for each branch, and for each pair of reasons whose order
\* decides.
AllRequests ==
    {[Ann EXCEPT !.body = b] : b \in {"valid", "fails", "invalid"}}
    \cup {[Bob EXCEPT !.body = b] : b \in {"invalid", "garbled"}}
    \cup {[Ann EXCEPT !.length = l] : l \in {"missing", "large"}}
    \cup {[Ann EXCEPT !.path = "policy", !.method = m] : m \in {"GET", "POST"}}
    \cup {[Ann EXCEPT !.path = "metrics", !.method = "GET"]}
    \cup {Get(p) : p \in {"health", "ready", "unknown", "slashed"}}
    \cup {[Bob EXCEPT !.path = "health"], Abe, AbePrefixed}

FewRequests == {Ann, [Ann EXCEPT !.body = "fails"], Bob, Get("health")}
PrefixCallers == {Ann, AbePrefixed, Get("health")}
ForeignCallers == {Ann, Foreign, Get("policy")}
=============================================================================
