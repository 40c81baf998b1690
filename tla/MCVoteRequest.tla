---------------------------- MODULE MCVoteRequest ----------------------------
(***************************************************************************)
(* Three requests of one device, each call of Guard sent twice at most:    *)
(* two requests that are interchangeable for a first poll, one for another.*)
(* Addresses are numbers: 9 the client's, 1 and 2 trusted proxies', 5      *)
(* somebody else's, each in its plain and its mapped form.                 *)
(***************************************************************************)
EXTENDS VoteRequest, TLC

CONSTANTS r1, r2, r3, p1, p2, d1

MCRequests == {r1, r2, r3}
MCPolls == {p1, p2}
MCPollOf == [r \in MCRequests |-> IF r = r3 THEN p2 ELSE p1]
MCDeviceOf == [r \in MCRequests |-> d1]

P(ip) == [ip |-> ip, mapped |-> FALSE]
M(ip) == [ip |-> ip, mapped |-> TRUE]

MCTrusted == {P(1), P(2)}
MCRoutes ==
    [forged : {<<>>, <<P(5)>>, <<M(5), P(1)>>, <<M(1)>>, <<Garbage>>},
     path : {<<P(9)>>, <<M(9), P(1)>>, <<P(9), P(2), M(1)>>,
             <<P(9), M(2), P(1)>>, <<P(9), M(2), P(2), P(1)>>,
             <<Garbage, P(2)>>, <<P(9), Garbage, P(1), P(2)>>}]

Symmetric == Permutations({r1, r2})
=============================================================================
