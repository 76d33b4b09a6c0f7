----------------------------- MODULE BlockStore -----------------------------
(***************************************************************************)
(* What a block device promises to the layer above it, and so what a cache *)
(* in front of one has to promise: requests take effect one at a time      *)
(* between their submission and their completion, and a crash loses only   *)
(* requests that were not completed.                                       *)
(***************************************************************************)
CONSTANTS Sectors, Requests, None

VARIABLES
    store,     \* what each sector holds
    request    \* the requests and their results

(* A sector has two halves, a partial write changes only one of them.  *)
Empty == [lo |-> None, hi |-> None]
Written(r, page) ==
    IF request[r].full THEN [lo |-> r, hi |-> r] ELSE [page EXCEPT !.lo = r]

Unissued == [pc |-> "idle", dir |-> "READ", sector |-> None, full |-> TRUE,
             result |-> Empty]

Init ==
    /\ store = [s \in Sectors |-> Empty]
    /\ request = [r \in Requests |-> Unissued]

Submit(r) ==
    /\ request[r].pc = "idle"
    /\ \E d \in {"READ", "WRITE"}, s \in Sectors, full \in BOOLEAN :
           request' = [request EXCEPT ![r] = [Unissued EXCEPT
               !.pc = "pending", !.dir = d, !.sector = s, !.full = full]]
    /\ UNCHANGED store

Read(r) ==
    /\ request[r].pc = "pending"
    /\ request[r].dir = "READ"
    /\ request' = [request EXCEPT ![r].pc = "done", ![r].result = store[request[r].sector]]
    /\ UNCHANGED store

Write(r) ==
    /\ request[r].pc = "pending"
    /\ request[r].dir = "WRITE"
    /\ request' = [request EXCEPT ![r].pc = "done"]
    /\ store' = [store EXCEPT ![request[r].sector] = Written(r, @)]

(* Of each sector, at most one write in flight may have taken effect.  *)
Crash ==
    /\ request' = [r \in Requests |->
           IF request[r].pc = "pending" THEN [request[r] EXCEPT !.pc = "lost"] ELSE request[r]]
    /\ \E survivor \in [Sectors -> Requests \cup {None}] :
        /\ \A s \in Sectors : survivor[s] # None =>
               /\ request[survivor[s]].pc = "pending"
               /\ request[survivor[s]].dir = "WRITE"
               /\ request[survivor[s]].sector = s
        /\ store' = [s \in Sectors |->
               IF survivor[s] = None THEN store[s] ELSE Written(survivor[s], store[s])]

(* A crash with no request in flight changes nothing, every other step     *)
(* changes a request.                                                      *)
Next ==
    /\ request' # request
    /\ (\E r \in Requests : Submit(r) \/ Read(r) \/ Write(r)) \/ Crash

Spec == Init /\ [][Next]_<<store, request>>

============================================================================
