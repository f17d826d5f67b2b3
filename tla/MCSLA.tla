------------------------------- MODULE MCSLA --------------------------------
(***************************************************************************)
(* One task and five rules on a clock whose instants lie on both sides of  *)
(* the warning (50 minutes), of the target (99 minutes), of a whole number *)
(* of minutes that a float64 loses (100 minutes), and of nothing at all.   *)
(***************************************************************************)
EXTENDS SLA

MCStatuses == {"open", "done"}
MCInstants == {0, 30, 6000, 6060}
MCShortElapsed == {6000, 6900, 7380}
MCStatusOf == [e \in {"status:open", "status:done", "due"} |->
  IF e = "status:open" THEN "open" ELSE IF e = "status:done" THEN "done" ELSE "due"]

\* The decimals below 34 hours that lose a minute; the halves up to 100 minutes.
MCShort == {41, 82, 164, 169, 323, 328, 333, 338} \X {"h", "d"}
MCTiesUp == {3, 27, 33, 39, 45, 63, 81, 93}

Answer == [id |-> "answer", parses |-> TRUE, selects |-> MCStatuses, during |-> MCInstants,
           target |-> 99, warn |-> 50, start |-> "status:open", stop |-> "status:done"]

MCRules ==
  { Answer,
    [Answer EXCEPT !.id = "late", !.selects = {"open"}, !.during = {30, 6060},
                   !.target = 3, !.warn = None],
    [Answer EXCEPT !.id = "again", !.start = "status:done", !.target = 51],
    [Answer EXCEPT !.id = "due", !.start = "due"],
    [Answer EXCEPT !.id = "unread", !.parses = FALSE] }

=============================================================================
