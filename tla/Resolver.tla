------------------------------- MODULE Resolver -------------------------------
(***************************************************************************)
(* What the DNS client promises its callers, http_client.c and the `host'  *)
(* command of main.c (dns.c, the comment above dns_gethostbyname): a call  *)
(* returns an address at once, or an error, or ERR_INPROGRESS; in the last *)
(* case, and only then, the callback is called exactly once, after the     *)
(* call has returned, with an address of the name asked for or with NULL.  *)
(***************************************************************************)
EXTENDS Naturals, FiniteSetsExt

CONSTANTS Names,      \* host names
          Callbacks,  \* the callback functions that callers pass
          Null,       \* the answer of a failed query
          MaxRequests \* how many calls can be owed (DNS_MAX_REQUESTS)

VARIABLES waiting,  \* how many calls of each callback, for each name, are owed
          out       \* what the last step returned or called

\* An address is represented by the name it was given for.
Answers(n) == {n, Null}

Nothing == [kind |-> "nothing"]
Returned(cb, n, err, ans) ==
    [kind |-> "returned", cb |-> cb, name |-> n, err |-> err, ans |-> ans]
Found(n, ans, to) == [kind |-> "found", name |-> n, ans |-> ans, to |-> to]

Init ==
    /\ waiting = [q \in Callbacks \X Names |-> 0]
    /\ out = Nothing

Owed == MapThenSumSet(LAMBDA q : waiting[q], Callbacks \X Names)

\* ERR_INPROGRESS: one more call is owed.
Accept(cb, n) ==
    /\ out' = Returned(cb, n, "INPROGRESS", Null)
    /\ Owed < MaxRequests
    /\ waiting' = [waiting EXCEPT ![<<cb, n>>] = @ + 1]

\* ERR_OK with a known address, or an error: nothing is owed.
Refuse(cb, n) ==
    /\ out' \in {Returned(cb, n, "OK", n)} \cup
               {Returned(cb, n, e, Null) : e \in {"VAL", "MEM"}}
    /\ UNCHANGED waiting

\* The query for n ends: every call owed for n is made, with the same answer.
Deliver(n) ==
    /\ \E ans \in Answers(n) :
         out' = Found(n, ans, [cb \in Callbacks |-> waiting[<<cb, n>>]])
    /\ \E cb \in Callbacks : waiting[<<cb, n>>] > 0
    /\ waiting' = [q \in Callbacks \X Names |-> IF q[2] = n THEN 0 ELSE waiting[q]]

\* Internal work of the resolver: no call is made, none is forgotten.
Work == out' = Nothing /\ UNCHANGED waiting

Next ==
    \/ Work
    \/ \E cb \in Callbacks, n \in Names : Accept(cb, n) \/ Refuse(cb, n)
    \/ \E n \in Names : Deliver(n)

Spec == Init /\ [][Next]_<<waiting, out>>
==============================================================================
