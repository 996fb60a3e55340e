----------------------------- MODULE MCExecutor -----------------------------
(* Instances of Executor for TLC.                                          *)
EXTENDS Executor

CONSTANTS r1, r2

Ref(name) == [name |-> name, expanded |-> TRUE]

In(refs, seconds, kinds, streams, may) ==
    [id |-> "id", refs |-> refs, seconds |-> seconds, kinds |-> kinds,
     streams |-> streams, feeds |-> FALSE, may |-> may]

(* The third name is like the second and becomes the first.                *)
Clash == <<Ref(<<"3", "a">>), Ref(<<"a">>), Ref(<<"a">>)>>

(* Commands with every kind of process; with output; with a long input;    *)
(* with files; with a limit that overflows, or none of their own; without  *)
(* anything.                                                               *)
Forks    == In(<< >>, 1, {"child", "quiet", "daemon"}, {},
               {"cancel", "restart"})
Writes   == In(<< >>, 1, {}, Streams, {"read"})
Daemon   == In(<< >>, 0, {"daemon"}, {"stdout"}, {"write"})
Fed      == [In(<< >>, 1, {"child", "reader"}, {}, {}) EXCEPT !.feeds = TRUE]
Fails    == In(<< >>, 1, {}, {"stdout"}, Mishaps)
Twice    == In(<<Ref(<<"a">>), Ref(<<"a">>)>>, 1, {}, {}, {})
Once     == In(<<Ref(<<"a">>)>>, 1, {}, {}, {})
Clashing == In(Clash, 0, {}, {}, Mishaps)
TooMany  == In(Clash \o <<Ref(<<"b">>)>>, 0, {}, {}, {})
Bad      == In(<<Ref(<<"a">>), [Ref(<<"a">>) EXCEPT !.expanded = FALSE]>>, 0, {}, {}, {})
Plain    == In(<< >>, 1, {}, {}, {})
Overflow == In(<< >>, 11, {}, {}, {})

MCInputs == {Forks, Writes, Daemon, Fed, Fails, Twice, Once, Clashing,
             TooMany, Bad, Plain, Overflow}

Plan(a, b) == [r \in Requests |-> IF r = r1 THEN a ELSE b]

MCPlans == {Plan(a, NoInput) : a \in {Forks, Writes, Daemon, Fed, Fails,
                                      Clashing, Overflow}}
           \cup {Plan(Twice, Once), Plan(TooMany, Bad), Plan(Plain, Plain)}

BothRequests == {r1, r2}
=============================================================================
