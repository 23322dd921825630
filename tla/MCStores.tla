------------------------------- MODULE MCStores -------------------------------
(***************************************************************************)
(* Four calls, so that both projects can be registered before both want    *)
(* the same workflow id.  A team is registered with its members, one of    *)
(* them anew, and once more as an individual; the same plan is proposed    *)
(* twice in a millisecond; and a second memory write, after the workflow   *)
(* went on, repeats what the first one may not have finished.              *)
(***************************************************************************)
EXTENDS Stores, TLC

CONSTANTS call1, call2, call3, call4, web, api, build, lead, helper, squad, key1, key2, key3,
  proposal1

FourCalls == {call1, call2, call3, call4}

ProjectRequests ==
  [kind : {"project"}, project : {web, api}, priority : {"normal"}]
  \cup [kind : {"update"}, project : {web}, priority : {"urgent"}]
  \cup [kind : {"workflow"}, workflow : {build}, project : {web, api}]

Nobody == [n \in {} |-> None]
Squad(members) == squad :> [lead |-> lead, members |-> members]
NodeRequests ==
  {[kind |-> "nodes", types |-> (lead :> "individual") @@ (squad :> "team"), teams |-> Squad({lead})],
   [kind |-> "nodes", types |-> helper :> "individual", teams |-> Squad({lead, helper})],
   [kind |-> "nodes", types |-> helper :> "individual", teams |-> Squad({helper})],
   [kind |-> "nodes", types |-> squad :> "individual", teams |-> Nobody]}

OtherRequests ==
  {[kind |-> "proposal", id |-> proposal1],
   [kind |-> "memory", keys |-> <<key1, key3>>],
   [kind |-> "memory", keys |-> <<key1, key2, key3>>]}

AllRequests == ProjectRequests \cup NodeRequests \cup OtherRequests
\* The files have nothing to do with each other: all calls are about one of them.
Subject(r) == IF r.kind = "memory" THEN "memory" ELSE FileOf(r)
OneSubject ==
  \A c, d \in Calls :
    None \notin {request[c], request[d]} => Subject(request[c]) = Subject(request[d])

\* Calls differ only in when they run, and nothing checked here is a liveness property.
CallSymmetry == Permutations(FourCalls)
===============================================================================
