----------------------------- MODULE MCRmaRange -----------------------------
(* Ranges between threads and between processes, on hosts and devices; the *)
(* fields of the owner start within a page, at its begin and at its end.   *)
EXTENDS RmaRange

Range(loc, guard, s, t, f, cached) ==
  [loc |-> loc, guard |-> guard, ordered |-> TRUE, source_gpu |-> s, target_gpu |-> t,
   ptr |-> f[1], size |-> f[2], cached |-> cached]

MCRanges ==
  {Range("thread", "mutex", s, t, <<9, 3>>, FALSE) : s \in BOOLEAN, t \in BOOLEAN}
    \cup {Range("process", g, s, FALSE, f, FALSE) :
            g \in {"mutex", "byte"}, s \in BOOLEAN, f \in {<<8, 4>>, <<9, 3>>, <<10, 5>>, <<11, 1>>}}
    \cup {Range("process", g, s, TRUE, <<9, 3>>, c) :
            g \in {"mutex", "byte"}, s \in BOOLEAN, c \in BOOLEAN}
=============================================================================
