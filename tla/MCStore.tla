------------------------------ MODULE MCStore ------------------------------
(* Small instances of Store: the events clients may send. *)
EXTENDS Store

CONSTANTS Visitor1, Visitor2, Home, Hero, Req1

Event(id, kind, occurred, anon, item, request, ok) ==
    [app |-> "project_snow", id |-> id, kind |-> kind, occurred |-> occurred,
     anon |-> anon, item |-> item, request |-> request, ok |-> ok]

View(id, occurred, anon) == Event(id, "page_view", occurred, anon, Home, None, FALSE)
Select(id, occurred, anon) == Event(id, "character_select", occurred, anon, Hero, None, FALSE)
Complete(id, occurred, ok) == Event(id, "request_complete", occurred, None, Hero, Req1, ok)

\* Lost answers and conflicts: an event sent alone, again inside a batch, and
\* with the same key but other content.
RetryBatches ==
    {<<View(1, 3, Visitor1)>>, <<View(1, 3, Visitor1), View(2, 4, Visitor1)>>,
     <<View(1, 4, Visitor1)>>, <<View(3, 5, None)>>}

\* Totals: two views by one visitor, another visitor, one request logged twice.
CountBatches ==
    {<<View(1, 3, Visitor1), Select(2, 3, Visitor2)>>, <<View(3, 3, Visitor1)>>,
     <<Complete(4, 3, TRUE), Complete(5, 4, FALSE)>>}
=============================================================================
