---------------------------- MODULE MCThreadReading ----------------------------
(* Two targets; three entries of one, so that a page of one entry and a page of *)
(* two can be the first, a middle or the last one, and one entry of the other.  *)
EXTENDS ThreadReading, TLC

CONSTANTS t1, t2, e1, e2, e3, f1, n1, n2

MCTarget == {t1, t2}
MCEntry == {e1, e2, e3, f1}
MCHome == (f1 :> t2) @@ [e \in {e1, e2, e3} |-> t1]
MCBefore == (t1 :> <<e1, e2>>) @@ (t2 :> <<f1>>)
MCReplies == (e1 :> {n1}) @@ (f1 :> {n2}) @@ [e \in {e2, e3} |-> {}]

\* Backends: everything optional, as much as a walk needs, and hardly anything.
MCDialect ==
    {Optional, {"has_next", "total_elements"},
     {"page", "size", "total_pages", "is_last", "note_thread_id"}}

===============================================================================
